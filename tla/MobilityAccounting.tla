-------------------------- MODULE MobilityAccounting ------------------------
(***************************************************************************)
(* Two promises of a Move that each rest on an invariant of their own.     *)
(*                                                                         *)
(* A held replacement is let go only when the reservation Pod is gone      *)
(* (HeldUntilPlacementGone), in every Move whose namespace does not opt    *)
(* out of admission.  The invariant follows the reservation Pod through    *)
(* the phases: nobody creates one for a Move without its finalizer or      *)
(* behind the phase that waits for the Pod's end, and a pass enters that   *)
(* phase, the end of a cancellation or a quiet recovery only on having     *)
(* seen that there is none.                                                *)
(*                                                                         *)
(* Capacity stays reserved for every copy beside the owner's               *)
(* (EveryCopyIsAccounted), in every Move in whose instance finished Jobs   *)
(* do not expire; MobilityExpiredJob.cfg shows why that is assumed.        *)
(* The property says when the reservation may be given back, so the        *)
(* invariant has to know what is left on the disks at each end of a Move.  *)
(* A cancelled Move has no disk plan.  A Move that succeeded has purged    *)
(* its source, and nothing is at the incoming directory: the copy Job that *)
(* a promotion rests on is complete and nobody starts another.  A recovery *)
(* settles on an inventory of the destination; that inventory is complete  *)
(* because its scan began behind a fence, and behind the fence no helper   *)
(* is left that could add a copy.                                          *)
(***************************************************************************)
EXTENDS MobilityProofs

(* The provers of a leaf that names none.                                    *)
USE SMTT(15), Z3T(15), ZenonT(30)

-----------------------------------------------------------------------------
(* The reservation Pod and the replacement that is held for it.             *)

(* What the pass may become.                                                *)
LEMMA PassBecomes ==
  ASSUME IInv
  PROVE  /\ End => ctl'.step = "idle"
         /\ Done => ctl'.step = "persist" /\ ctl'.d = ctl.d
         /\ \A v : Continue(v) => ctl'.step = "act2" /\ ctl'.d = ctl.d
<1>1. ctl \in Passes
  BY PassContext
<1>2. End => ctl'.step = "idle"
  BY PassTypes DEF End
<1>3. Done => ctl'.step = "persist" /\ ctl'.d = ctl.d
  BY <1>1 DEF Done, Passes
<1>4. \A v : Continue(v) => ctl'.step = "act2" /\ ctl'.d = ctl.d
  BY <1>1 DEF Continue, Passes
<1> QED  BY <1>2, <1>3, <1>4

(* The fields of the Move that matter here, as most steps leave them.       *)
SameReservation ==
    /\ mv'.phase = mv.phase /\ mv'.recovery = mv.recovery
    /\ mv.plan => mv'.plan
    /\ mv.protected => mv'.protected
    /\ mv'.hold \/ mv'.intent => mv.plan

(* The pass has ended or goes on with its decision, and a recovery that     *)
(* waits for the end of the reservation Pod has seen it.                    *)
PassGoesOnPlaced ==
    \/ ctl'.step = "idle"
    \/ /\ ctl'.d = ctl.d /\ ctl.step # "idle"
       /\ At("act", "QuiesceRecovery") => At("act", "QuiesceRecovery")' \/ PlacementGone'

(* A step that creates no reservation Pod.                                  *)
LEMMA PlacementKept ==
  ASSUME HInv, SameReservation, PlacementGone => PlacementGone', PassGoesOnPlaced
  PROVE  HInv'
<1>1. PlacementInv'
  BY DEF HInv, PlacementInv, SameReservation
<1>2. ASSUME ctl'.step # "idle" PROVE PassPlacement(ctl.d, ctl.d.action)'
  <2>1. /\ ctl'.d = ctl.d
        /\ At("act", "QuiesceRecovery") => At("act", "QuiesceRecovery")' \/ PlacementGone'
        /\ PassPlacement(ctl.d, ctl.d.action)
    BY <1>2 DEF HInv, PassGoesOnPlaced
  <2> QED  BY <2>1 DEF PassPlacement, SameReservation
<1> QED  BY <1>1, <1>2 DEF HInv

(* A Move that is not written.                                              *)
LEMMA UnwrittenReservation ==
  ASSUME HInv, mv' = mv
  PROVE  SameReservation
  BY DEF HInv, PlacementInv, SameReservation

(* Steps of everybody but the controller.                                   *)
LEMMA WorldPlacement ==
  ASSUME IInv, HInv,
         \/ (\E j \in JobKind : Helper(j)) \/ Executor \/ Scanner \/ Workload
         \/ (\E c \in Consumers : Write(c)) \/ Scheduler \/ Operator \/ Environment
         \/ UNCHANGED vars
  PROVE  HInv'
<1>1. SameReservation
  <2>1. \/ mv' = mv
        \/ mv' = [mv EXCEPT !.requested = TRUE]
        \/ mv' = [mv EXCEPT !.deleting = TRUE, !.exists = mv.protected]
    BY Zenon
      DEF Helper, Executor, Scanner, Workload, Write, Scheduler, Environment, Preempt,
       CleanupReview, HelperFault, PublishInterrupted, RollPod, vars, Operator, Uncordon,
       RequestRecovery, DeleteMove, CloseWorkload, RetireClaim
  <2>2. mv \in Moves
    BY PassContext
  <2>3. /\ mv'.phase = mv.phase /\ mv'.recovery = mv.recovery /\ mv'.plan = mv.plan
        /\ mv'.protected = mv.protected /\ mv'.hold = mv.hold /\ mv'.intent = mv.intent
    BY <2>1, <2>2, Zenon DEF Moves
  <2> QED  BY <2>3 DEF HInv, PlacementInv, SameReservation
<1>2. PlacementGone => PlacementGone'
  <2>1. \/ placement' = placement
        \/ placement.state = "pending"
        \/ placement.state = "terminating"
        \/ placement.state = "scheduled"
    BY Zenon
      DEF Helper, Executor, Scanner, Workload, Write, Scheduler, Environment, Preempt,
       CleanupReview, HelperFault, PublishInterrupted, RollPod, vars, Operator
  <2> QED  BY <2>1 DEF PlacementGone
<1>3. ctl'.step = ctl.step /\ ctl'.d = ctl.d
  <2>1. ctl' = ctl \/ ctl' = Stale
    BY Zenon
      DEF Helper, Executor, PurgeAuthorize, Purge, Scanner, Workload, Write, Scheduler,
       Environment, Preempt, CleanupReview, HelperFault, PublishInterrupted, RollPod, vars,
       Operator, Uncordon, RequestRecovery, DeleteMove, CloseWorkload, RetireClaim
  <2> QED  BY <2>1, StalePass DEF SamePass, IInv
<1>4. PassGoesOnPlaced
  BY <1>3 DEF PassGoesOnPlaced, At
<1> QED  BY <1>1, <1>2, <1>4, PlacementKept

(* Effects that neither write the Move nor create a reservation Pod.        *)
LEMMA PlainEffectPlacement ==
  ASSUME IInv, HInv, ctl.step # "idle", ~At("act", "QuiesceRecovery"), mv' = mv,
         placement' \in {placement, DeletedPlacement}, End \/ Done \/ \E v : Continue(v)
  PROVE  HInv'
<1>1. PlacementGone => PlacementGone'
  BY DEF PlacementGone, DeletedPlacement
<1>2. PassGoesOnPlaced
  BY PassBecomes DEF PassGoesOnPlaced
<1> QED  BY <1>1, <1>2, UnwrittenReservation, PlacementKept

(* Writes of the Move that leave its phase and keep its plan.  The          *)
(* finalizer goes only from a Move that has seen the reservation gone.      *)
LEMMA RecordPlacement ==
  ASSUME IInv, HInv, ctl.step # "idle", ~At("act", "QuiesceRecovery"),
         placement' \in {placement, DeletedPlacement},
         \/ ProtectMove \/ EnsureCapacity \/ EnsurePromotion \/ FinalizeHistory
         \/ RetireRecovery \/ RecordRollbackScan \/ (SpaceRefused /\ End)
  PROVE  HInv'
<1>1. mv \in Moves
  BY PassContext
<1>2. \/ mv' = mv
      \/ mv' = [mv EXCEPT !.protected = TRUE]
      \/ /\ mv.hold
         /\ mv' = [mv EXCEPT !.hold = FALSE, !.approved = TRUE, !.intent = TRUE,
                             !.reason = "none"]
      \/ mv' = [mv EXCEPT !.promote = TRUE]
      \/ mv' = [mv EXCEPT !.exists = vol.locked]
      \/ mv' = [mv EXCEPT !.approved = FALSE, !.reason = "RecoverySettled"]
      \/ mv' = [mv EXCEPT !.required = pool.generation]
      \/ mv' = [mv EXCEPT !.reason = "Space"]
      \/ /\ FinalizeHistory /\ (mv.phase = "Cancelled" \/ MoveCleanupSettled)
         /\ mv' = [mv EXCEPT !.protected = FALSE, !.exists = ~mv.deleting]
  BY Zenon
    DEF ProtectMove, EnsureCapacity, EnsurePromotion, FinalizeHistory, RetireRecovery,
     RecordRollbackScan, SpaceRefused
<1>3. PlacementGone => PlacementGone'
  BY DEF PlacementGone, DeletedPlacement
<1>4. CASE /\ FinalizeHistory /\ (mv.phase = "Cancelled" \/ MoveCleanupSettled)
           /\ mv' = [mv EXCEPT !.protected = FALSE, !.exists = ~mv.deleting]
  <2>1. PlacementGone
    BY <1>4 DEF MoveCleanupSettled, HInv, PlacementInv, Unreserved
  <2>2. /\ mv'.phase = mv.phase /\ mv'.recovery = mv.recovery /\ mv'.plan = mv.plan
        /\ mv'.hold = mv.hold /\ mv'.intent = mv.intent
    BY <1>1, <1>4, Zenon DEF Moves
  <2>3. ctl'.step = "idle"
    BY <1>4, PassBecomes DEF FinalizeHistory
  <2> QED  BY <1>3, <2>1, <2>2, <2>3 DEF HInv, PlacementInv
<1>5. CASE ~(/\ FinalizeHistory /\ (mv.phase = "Cancelled" \/ MoveCleanupSettled)
             /\ mv' = [mv EXCEPT !.protected = FALSE, !.exists = ~mv.deleting])
  <2>1. /\ mv'.phase = mv.phase /\ mv'.recovery = mv.recovery /\ mv'.plan = mv.plan
        /\ mv.protected => mv'.protected
        /\ mv'.hold => mv.hold
        /\ mv'.intent => mv.intent \/ mv.hold
    BY <1>1, <1>2, <1>5, ZenonT(60) DEF Moves
  <2>2. SameReservation
    BY <2>1 DEF SameReservation, HInv, PlacementInv
  <2>3. End \/ Done \/ \E v : Continue(v)
    BY Zenon DEF ProtectMove, EnsureCapacity, EnsurePromotion, FinalizeHistory,
       RetireRecovery, RecordRollbackScan
  <2>4. PassGoesOnPlaced
    BY <2>3, PassBecomes DEF PassGoesOnPlaced
  <2> QED  BY <1>3, <2>2, <2>4, PlacementKept
<1> QED  BY <1>4, <1>5

(* A reservation Pod is created for a Move that has its finalizer and is    *)
(* before the phases that wait for the Pod's end.                           *)
LEMMA ReservingPlacement ==
  ASSUME IInv, HInv, ctl.step = "act",
         \/ ctl.d.action = "ReservePreparation" /\ ReservePreparation
         \/ ctl.d.action = "EnsurePlacement" /\ EnsurePlacement
  PROVE  HInv'
<1>1. /\ mv.protected /\ mv.plan
      /\ mv.phase \notin Unreserved /\ ctl.d.phase \notin Unreserved
      /\ mv.recovery = "none" /\ ctl.d.recovery = "none"
      /\ ctl.d.action \in Reserving /\ ctl.d.action # "ReleasePlacement"
  BY DEF HInv, PassPlacement, Reserving
<1>2. /\ mv'.phase = mv.phase /\ mv'.recovery = mv.recovery /\ mv'.plan = mv.plan
      /\ mv'.protected = mv.protected
  <2>1. mv' = mv \/ mv' = [mv EXCEPT !.hold = TRUE]
    BY Zenon DEF ReservePreparation, EnsurePlacement
  <2>2. mv \in Moves
    BY PassContext
  <2> QED  BY <2>1, <2>2, Zenon DEF Moves
<1>3. ctl'.step = "idle" \/ ctl'.d = ctl.d
  BY PassBecomes DEF ReservePreparation, EnsurePlacement
<1>4. PlacementInv'
  BY <1>1, <1>2 DEF PlacementInv
<1>5. ctl'.d = ctl.d => PassPlacement(ctl.d, ctl.d.action)'
  BY <1>1, <1>2 DEF PassPlacement
<1> QED  BY <1>3, <1>4, <1>5 DEF HInv

(* A disruption that finds another reservation than the one it was granted  *)
(* blocks the Move instead.                                                 *)
LEMMA StartDisruptionPlacement ==
  ASSUME IInv, HInv, ctl.step = "act", ctl.d.action = "StartDisruption", StartDisruption
  PROVE  HInv'
<1>1. mv' = mv /\ placement' = placement
  BY DEF StartDisruption
<1>2. CASE ctl' = [ctl EXCEPT !.d = Decision("Blocked", "none", "MarkBlocked"), !.vol = vol]
  <2>1. ctl'.d = Decision("Blocked", "none", "MarkBlocked")
    <3>1. ctl \in Passes
      BY PassContext
    <3> QED  BY <1>2, <3>1 DEF Passes
  <2>2. /\ ctl'.d.phase = "Blocked" /\ ctl'.d.recovery = "none"
        /\ ctl'.d.action = "MarkBlocked"
    BY <2>1 DEF Decision
  <2>3. PassPlacement(ctl.d, ctl.d.action)'
    BY <2>2 DEF PassPlacement, Unreserved, Reserving
  <2>4. PlacementInv'
    BY <1>1 DEF HInv, PlacementInv, PlacementGone
  <2> QED  BY <2>3, <2>4 DEF HInv
<1>3. CASE End \/ \E v : Continue(v)
  BY <1>1, <1>3, PlainEffectPlacement DEF At
<1> QED  BY <1>2, <1>3, Zenon DEF StartDisruption

(* A recovery is quiescent only when the reservation Pod is gone.           *)
LEMMA QuiescePlacement ==
  ASSUME IInv, HInv, ctl.step = "act", ctl.d.action = "QuiesceRecovery", QuiesceRecovery
  PROVE  HInv'
<1>1. mv' = mv /\ placement' \in {placement, DeletedPlacement} /\ (End \/ (Done /\ PlacementGone))
  BY DEF QuiesceRecovery, PlacementGone
<1>2. PlacementGone => PlacementGone'
  BY <1>1 DEF PlacementGone, DeletedPlacement
<1>3. PassGoesOnPlaced
  BY <1>1, <1>2, PassBecomes DEF PassGoesOnPlaced
<1> QED  BY <1>1, <1>2, <1>3, UnwrittenReservation, PlacementKept

(* The phase that a pass records.                                           *)
LEMMA PersistPlacement ==
  ASSUME IInv, HInv, Persist
  PROVE  HInv'
<1>1. ctl.step = "persist" /\ ctl'.step = "idle" /\ placement' = placement
  BY PassBecomes DEF Persist
<1>2. CASE mv' = mv
  BY <1>1, <1>2 DEF HInv, PlacementInv, PlacementGone
<1>3. CASE mv' # mv
  <2>1. /\ mv'.phase = ctl.d.phase /\ mv'.recovery = ctl.d.recovery
        /\ mv.plan => mv'.plan
        /\ mv'.hold => mv.hold
        /\ mv'.intent = mv.intent /\ mv'.protected = mv.protected
    BY <1>3, PersistWrites, ZenonT(30)
  <2>2. PassPlacement(ctl.d, ctl.d.action)
    BY <1>1 DEF HInv
  <2> QED  BY <1>1, <2>1, <2>2 DEF HInv, PlacementInv, PlacementGone, PassPlacement, At
<1> QED  BY <1>2, <1>3

(* The first effect of a pass, action by action.                            *)
LEMMA EffectPlacement ==
  ASSUME IInv, HInv, ctl.step = "act", Effect(ctl.d.action)
  PROVE  HInv'
<1>1. ctl.d.action \in Effects
  BY DEF IInv, PassInv
<1> DEFINE Plain == /\ mv' = mv /\ placement' \in {placement, DeletedPlacement}
                    /\ End \/ Done \/ \E v : Continue(v)
<1>2. ASSUME Plain, ctl.d.action # "QuiesceRecovery" PROVE HInv'
  BY <1>2, PlainEffectPlacement DEF At
<1>3. CASE ctl.d.action \in {"ClaimSource", "RestoreSource", "ReleaseSource"}
  <2>1. Plain
    BY <1>3, ZenonT(30) DEF Effect, SetVolume
  <2> QED  BY <1>2, <1>3, <2>1
<1>4. CASE ctl.d.action \in {"EnsureCopy", "CommitOwner", "DeletePlacement",
                             "ReleasePlacement"}
  <2>1. EnsureCopy \/ CommitOwner \/ DeletePlacement \/ ReleasePlacement
    BY <1>4, Zenon DEF Effect
  <2>2. Plain
    BY <2>1, ZenonT(30) DEF EnsureCopy, CommitOwner, DeletePlacement, ReleasePlacement
  <2> QED  BY <1>2, <1>4, <2>2
<1>5. CASE ctl.d.action \in {"EnsureCleanup", "ConfirmCleanup", "MarkSucceeded",
                             "MarkBlocked", "RequestSettlement"}
  <2>1. \/ EnsureCleanup \/ ConfirmCleanup \/ MarkSucceeded \/ MarkBlocked
        \/ RequestSettlement
    BY <1>5, ZenonT(30) DEF Effect
  <2>2. Plain
    BY <2>1, ZenonT(30) DEF EnsureCleanup, ConfirmCleanup, MarkSucceeded, MarkBlocked,
       RequestSettlement
  <2> QED  BY <1>2, <1>5, <2>2
<1>6. CASE ctl.d.action \in {"VerifyRecovery", "ResumeRecovery", "CompleteRecovery"}
  <2>1. VerifyRecovery \/ ResumeRecovery \/ CompleteRecovery
    BY <1>6, Zenon DEF Effect
  <2>2. Plain
    BY <2>1, ZenonT(30) DEF VerifyRecovery, ResumeRecovery, CompleteRecovery
  <2> QED  BY <1>2, <1>6, <2>2
<1>7. CASE ctl.d.action \in {"ProtectMove", "EnsureCapacity", "EnsurePromotion",
                             "FinalizeHistory", "RetireRecovery"}
  <2>1. ProtectMove \/ EnsureCapacity \/ EnsurePromotion \/ FinalizeHistory \/ RetireRecovery
    BY <1>7, ZenonT(30) DEF Effect
  <2>2. placement' = placement
    BY <2>1, Zenon DEF ProtectMove, EnsureCapacity, EnsurePromotion, FinalizeHistory,
       RetireRecovery
  <2> QED  BY <1>7, <2>1, <2>2, RecordPlacement DEF At
<1>8. CASE ctl.d.action \in Reserving
  <2>1. \/ ctl.d.action = "ReservePreparation" /\ ReservePreparation
        \/ ctl.d.action = "EnsurePlacement" /\ EnsurePlacement
    BY <1>8, Zenon DEF Effect, Reserving
  <2> QED  BY <2>1, ReservingPlacement
<1>9. CASE ctl.d.action = "StartDisruption"
  <2>1. StartDisruption
    BY <1>9 DEF Effect
  <2> QED  BY <1>9, <2>1, StartDisruptionPlacement
<1>10. CASE ctl.d.action = "QuiesceRecovery"
  <2>1. QuiesceRecovery
    BY <1>10 DEF Effect
  <2> QED  BY <1>10, <2>1, QuiescePlacement
<1> QED
  BY <1>1, <1>3, <1>4, <1>5, <1>6, <1>7, <1>8, <1>9, <1>10 DEF Effects, Reserving

(* Every step of the controller.                                            *)
LEMMA ControllerPlacement ==
  ASSUME IInv, HInv, Controller, "optout" \notin Inputs
  PROVE  HInv'
<1>1. CASE Look
  BY <1>1, LookPlacement
<1>2. CASE ctl.step = "act" /\ Effect(ctl.d.action)
  BY <1>2, EffectPlacement
<1>3. CASE ctl.step = "act2" /\ SecondEffect(ctl.d.action)
  <2>1. ctl.d.action \in SecondEffects
    BY <1>3 DEF IInv, PassInv
  <2>2. EvictConsumer \/ (\E j : EnsureJob(j)) \/ RecordRollbackScan
    BY <1>3, <2>1, Zenon DEF SecondEffect, SecondEffects
  <2>3. CASE RecordRollbackScan
    BY <1>3, <2>3, RecordPlacement DEF RecordRollbackScan, At
  <2>4. CASE EvictConsumer \/ \E j : EnsureJob(j)
    <3>1. mv' = mv /\ placement' = placement /\ Done
      BY <2>4, Zenon DEF EvictConsumer, EnsureJob
    <3> QED  BY <1>3, <3>1, PlainEffectPlacement DEF At
  <2> QED  BY <2>2, <2>3, <2>4
<1>4. CASE CapacityRefused
  <2>1. ctl.step = "act" /\ End
    BY <1>4 DEF CapacityRefused
  <2>2. CASE ReservationRefused
    BY <2>1, <2>2, PlainEffectPlacement DEF ReservationRefused, At
  <2>3. CASE SpaceRefused
    BY <2>1, <2>3, RecordPlacement DEF SpaceRefused, At
  <2> QED  BY <1>4, <2>2, <2>3 DEF CapacityRefused
<1>5. CASE Persist
  BY <1>5, PersistPlacement
<1>6. CASE Crash
  <2>1. mv' = mv /\ placement' = placement /\ ctl'.step = "idle"
    BY <1>6, PassBecomes DEF Crash
  <2> QED  BY <2>1 DEF HInv, PlacementInv, PlacementGone
<1> QED  BY <1>1, <1>2, <1>3, <1>4, <1>5, <1>6 DEF Controller, Act

(* Every step of every actor.                                               *)
LEMMA NextPlacement ==
  ASSUME IInv, HInv, [Next]_vars, "optout" \notin Inputs
  PROVE  HInv'
  BY ControllerPlacement, WorldPlacement, Zenon DEF Next

-----------------------------------------------------------------------------
(* The replacement.                                                         *)

(* One Pod that changes leaves the other, and is what it is set to.         *)
LEMMA ReplacementState ==
  ASSUME IInv, NEW c \in Consumers, NEW x, pods' = [pods EXCEPT ![c] = x]
  PROVE  pods'["new"] = IF c = "new" THEN x ELSE pods["new"]
  BY DEF IInv, TypeOK, Consumers

(* Kubelet and faults change the mount of a Pod or end it; the workload     *)
(* controller replaces one that is gone.                                    *)
LEMMA WorkloadHolds ==
  ASSUME IInv, HInv, pods["new"].state = "held", pods'["new"].state = "bound",
         \/ Workload \/ \E c \in Consumers : PublishInterrupted(c) \/ RollPod(c)
  PROVE  PlacementGone
<1>1. /\ pods \in [Consumers -> PodRecords] /\ "new" \in Consumers
      /\ \A c \in Consumers : pods[c] \in PodRecords
  BY DEF IInv, TypeOK, Consumers
<1>2. CASE ReleaseOwnerPlacement
  <2>1. CASE mv.exists
    BY <1>2, <2>1 DEF ReleaseOwnerPlacement, MoveCleanupSettled, HInv, PlacementInv,
       Unreserved
  <2>2. CASE ~mv.exists
    BY <2>2 DEF IInv, VolumeInv, HInv, PlacementInv
  <2> QED  BY <2>1, <2>2
<1>3. CASE MutatePod
  BY <1>3 DEF MutatePod
<1>4. ASSUME NEW c \in Consumers, NEW m, pods' = [pods EXCEPT ![c].mount = m]
      PROVE  FALSE
  <2>1. pods'["new"].state = pods["new"].state
    BY <1>1, <1>4, ReplacementState, PodTypes
  <2> QED  BY <2>1
<1>5. ASSUME NEW c \in Consumers, pods' = [pods EXCEPT ![c].state = "terminating"]
      PROVE  FALSE
  <2>1. pods'["new"].state \in {pods["new"].state, "terminating"}
    BY <1>1, <1>5, ReplacementState, PodTypes
  <2> QED  BY <2>1
<1>6. ASSUME NEW c \in Consumers, pods' = [pods EXCEPT ![c] = NewPod("none", "none")]
      PROVE  FALSE
  <2>1. pods'["new"].state \in {pods["new"].state, "none"}
    BY <1>6, ReplacementState DEF NewPod
  <2> QED  BY <2>1
<1>7. CASE \E c \in Consumers : \/ BeginPublish(c) \/ Mount(c) \/ Unmount(c)
                                \/ ReconcilePublished(c)
                                \/ PublishInterrupted(c) \/ RollPod(c)
  <2>1. PICK c \in Consumers :
           \/ \E m : pods' = [pods EXCEPT ![c].mount = m]
           \/ pods' = [pods EXCEPT ![c].state = "terminating"]
           \/ pods' = [pods EXCEPT ![c] = NewPod("none", "none")]
    BY <1>7, Zenon DEF BeginPublish, Mount, Unmount, ReconcilePublished, PublishInterrupted,
       RollPod
  <2> QED  BY <1>4, <1>5, <1>6, <2>1
<1> QED  BY <1>2, <1>3, <1>7, Zenon DEF Workload

(* The controller lets the replacement go in one effect, which belongs to   *)
(* phases behind the end of the reservation Pod.                            *)
LEMMA ControllerHolds ==
  ASSUME IInv, HInv, pods["new"].state = "held", pods'["new"].state = "bound", Controller
  PROVE  PlacementGone
<1>1. /\ pods \in [Consumers -> PodRecords] /\ "new" \in Consumers /\ "old" \in Consumers
      /\ \A c \in Consumers : pods[c] \in PodRecords
  BY DEF IInv, TypeOK, Consumers
<1>2. CASE Look \/ CapacityRefused \/ Persist \/ Crash
  <2>1. pods' = pods
    BY <1>2, Zenon DEF Look, CapacityRefused, Persist, Crash
  <2> QED  BY <2>1
<1>3. CASE ctl.step = "act" /\ Effect(ctl.d.action)
  <2>1. ctl.d.action \in Effects
    BY <1>3 DEF IInv, PassInv
  <2>2. CASE ctl.d.action = "ReleasePlacement"
    BY <1>3, <2>2 DEF HInv, PassPlacement
  <2>3. CASE ctl.d.action = "EnsureCopy"
    <3>1. EnsureCopy
      BY <1>3, <2>3 DEF Effect
    <3>2. pods' = pods \/ pods' = [pods EXCEPT !["new"].node = "dst"]
      BY <3>1, Zenon DEF EnsureCopy
    <3>3. pods'["new"].state = pods["new"].state
      BY <1>1, <3>2 DEF PodRecords
    <3> QED  BY <3>3
  <2>4. CASE ctl.d.action = "ResumeRecovery"
    <3>1. ResumeRecovery
      BY <1>3, <2>4 DEF Effect
    <3>2. \/ pods' = pods
          \/ \E c \in Consumers : pods' = [pods EXCEPT
                ![c].state = IF @ = "held" THEN "none" ELSE "terminating",
                ![c].node = IF pods[c].state = "held" THEN "none" ELSE @]
      BY <3>1, Zenon DEF ResumeRecovery
    <3>3. CASE pods' = pods
      BY <3>3
    <3>4. ASSUME NEW c \in Consumers, pods' = [pods EXCEPT
                ![c].state = IF @ = "held" THEN "none" ELSE "terminating",
                ![c].node = IF pods[c].state = "held" THEN "none" ELSE @]
          PROVE  FALSE
      <4> DEFINE s == IF pods[c].state = "held" THEN "none" ELSE "terminating"
                 mid == [pods EXCEPT ![c].state = s]
                 n == IF pods[c].state = "held" THEN "none" ELSE mid[c].node
      <4>1. pods' = [mid EXCEPT ![c].node = n]
        BY <3>4, Zenon
      <4>2. s \in {"none", "terminating"}
        OBVIOUS
      <4> HIDE DEF s
      <4>3. /\ mid \in [Consumers -> PodRecords]
            /\ mid["new"].state \in {pods["new"].state, s}
        BY <1>1, <4>2 DEF PodRecords
      <4> HIDE DEF mid, n
      <4>4. pods'["new"].state = mid["new"].state
        BY <1>1, <4>1, <4>3 DEF PodRecords
      <4> QED  BY <4>2, <4>3, <4>4
    <3> QED  BY <3>2, <3>3, <3>4, Zenon
  <2>5. CASE ctl.d.action \in {"ProtectMove", "ClaimSource", "RestoreSource", "ReleaseSource",
                "ReservePreparation", "StartDisruption", "EnsurePlacement", "EnsureCapacity"}
    <3>1. pods' = pods
      BY <1>3, <2>5, ZenonT(30) DEF Effect, ProtectMove, SetVolume, ReservePreparation,
         StartDisruption, EnsurePlacement, EnsureCapacity
    <3> QED  BY <3>1
  <2>6. CASE ctl.d.action \in {"EnsurePromotion", "CommitOwner", "DeletePlacement",
                "EnsureCleanup", "ConfirmCleanup", "MarkSucceeded", "MarkBlocked",
                "RequestSettlement"}
    <3>1. pods' = pods
      BY <1>3, <2>6, ZenonT(30) DEF Effect, EnsurePromotion, CommitOwner, DeletePlacement,
         EnsureCleanup, ConfirmCleanup, MarkSucceeded, MarkBlocked, RequestSettlement
    <3> QED  BY <3>1
  <2>7. CASE ctl.d.action \in {"FinalizeHistory", "QuiesceRecovery", "VerifyRecovery",
                "RetireRecovery", "CompleteRecovery"}
    <3>1. pods' = pods
      BY <1>3, <2>7, ZenonT(30)
        DEF Effect, FinalizeHistory, QuiesceRecovery, VerifyRecovery,
         RetireRecovery, CompleteRecovery
    <3> QED  BY <3>1
  <2> QED  BY <2>1, <2>2, <2>3, <2>4, <2>5, <2>6, <2>7 DEF Effects
<1>4. CASE ctl.step = "act2" /\ SecondEffect(ctl.d.action)
  <2>1. ctl.d.action \in SecondEffects
    BY <1>4 DEF IInv, PassInv
  <2>2. pods' = pods \/ pods' = [pods EXCEPT !["old"].state = "terminating"]
    BY <1>4, <2>1, Zenon DEF SecondEffect, SecondEffects, EvictConsumer, EnsureJob,
       RecordRollbackScan
  <2>3. pods'["new"].state = pods["new"].state
    BY <1>1, <2>2, ReplacementState
  <2> QED  BY <2>3
<1> QED  BY <1>2, <1>3, <1>4 DEF Controller, Act

(* Nobody lets the replacement go before the reservation Pod is gone.       *)
LEMMA NextHolds ==
  ASSUME IInv, HInv, [Next]_vars, pods["new"].state = "held", pods'["new"].state = "bound"
  PROVE  PlacementGone
<1>1. CASE Controller
  BY <1>1, ControllerHolds
<1>2. CASE Workload \/ \E c \in Consumers : PublishInterrupted(c) \/ RollPod(c)
  BY <1>2, WorkloadHolds
<1>3. CASE Operator
  <2>1. pods' = pods \/ CloseWorkload
    BY <1>3, Zenon DEF Operator, Uncordon, RequestRecovery, DeleteMove, RetireClaim
  <2>2. CloseWorkload => pods'["new"].state = "none"
    BY DEF CloseWorkload, Consumers, NewPod
  <2> QED  BY <2>1, <2>2
<1>4. CASE \/ (\E j \in JobKind : Helper(j) \/ HelperFault(j)) \/ Executor \/ CleanupReview
           \/ Scanner \/ (\E c \in Consumers : Write(c)) \/ Scheduler \/ Preempt
           \/ UNCHANGED vars
  <2>1. pods' = pods
    BY <1>4, Zenon
      DEF Helper, HelperFault, Executor, CleanupReview, Scanner, Write, Scheduler,
       Preempt, vars
  <2> QED  BY <2>1
<1> QED  BY <1>1, <1>2, <1>3, <1>4, Zenon DEF Next, Environment

(* A held replacement is let go only after the reservation Pod that kept    *)
(* its place is gone, for any number of faults and writes and any choice of *)
(* inputs in which the namespace does not opt out of admission; a namespace *)
(* that does is read as one without a reservation (observeConsumers).       *)
THEOREM ReplacementWaits ==
  ASSUME "optout" \notin Inputs
  PROVE  Spec => HeldUntilPlacementGone
<1>1. Init => HInv
  BY DEF Init, HInv, PlacementInv, PlacementGone, Unreserved, Idle
<1>2. IInv /\ HInv /\ [Next]_vars => HInv'
  BY NextPlacement
<1>3. IInv /\ HInv /\ [Next]_vars =>
        [pods["new"].state = "held" /\ pods'["new"].state = "bound" =>
            placement.state = "none"]_vars
  BY NextHolds DEF PlacementGone
<1> QED  BY <1>1, <1>2, <1>3, Inductive, PTL DEF Spec, HeldUntilPlacementGone

-----------------------------------------------------------------------------
(* The copies and the capacity that is reserved for them.                   *)

(* A copy beside the owner's.                                               *)
Extra == disk.incoming # 0 \/ \E n \in Nodes \ {vol.owner} : disk[n] # 0

SourceClosed == CleanupClosed("MoveSource", "src")

(* What decides who may still write at the destination: the recorded phase  *)
(* and the Jobs.  Without the expiry of finished Jobs the copy Job of a     *)
(* recorded promotion is there, complete, until recovery deletes it.        *)
HelperInv ==
    /\ mv.phase = "Promoting" => mv.promote
    /\ mv.promote => /\ jobs.copy.pc = "idle"
                     /\ jobs.copy.state \in {"complete", "deleting", "none"}
                     /\ mv.phase # "Blocked" => jobs.copy.state = "complete"
    /\ disk.promoted \/ jobs.promote.pc = "written" => disk.incoming = 0
    /\ vol.owner = "dst" => disk.promoted

(* What a journal says about the copy it names.                             *)
TargetInv ==
    /\ journal.target \in {"incoming", "dst"} => mv.required > 0
    /\ journal.phase \in {"Purged", "Completed"} => disk[journal.target] = 0

(* A scan of the current generation saw everything that is there.           *)
Covers(view) ==
    view.generation = pool.generation =>
        /\ disk.incoming # 0 => view.incoming
        /\ disk.dst # 0 => view.serving

(* The scan fence of a rollback is open or being opened: nothing is added   *)
(* at the destination any more.                                             *)
Fenced == mv.required > 0 \/ At("act2", "RetireRecovery")

FenceInv ==
    /\ mv.required > 0 => Quiet /\ mv.phase = "Blocked"
    /\ pool.generation >= 1
    /\ pool.inventory.generation <= pool.generation
    /\ pool.scan.generation <= pool.generation
    /\ Fenced => Covers(pool.inventory) /\ Covers(pool.scan)

(* The ends of a Move: what each leaves behind.                             *)
EndInv ==
    /\ mv.phase = "Cancelled" => ~mv.intent
    /\ mv.phase = "Succeeded" => SourceClosed
    /\ mv.reason = "RecoverySettled" =>
          mv.intent /\ mv.phase = "Blocked" /\ Quiet /\ ~Extra
    /\ mv.intent /\ mv.phase # "Succeeded" /\ mv.reason # "RecoverySettled" => mv.protected

(* What a pass that is under way relies on for these.                       *)
PassAccounts(d, a) ==
    /\ d.phase = "Cancelled" => ~mv.intent
    /\ d.phase = "Promoting" => mv.promote \/ At("act", "EnsurePromotion")
    /\ d.phase = "Succeeded" => SourceClosed \/ At("act", "MarkSucceeded")
    /\ mv.phase = "Blocked" /\ mv.intent => d.phase = "Blocked"
    /\ a = "EnsurePromotion" =>
          mv.promote \/ (ctl.step = "act" /\ jobs.copy.state = "complete")
    /\ a \in {"EnsureCopy", "EnsurePromotion", "CommitOwner"} => mv.phase # "Blocked"
    /\ a \in {"QuiesceRecovery", "RetireRecovery"} => mv.phase = "Blocked"

AInv ==
    /\ HelperInv /\ TargetInv /\ FenceInv /\ EndInv
    /\ ctl.step # "idle" => PassAccounts(ctl.d, ctl.d.action)

-----------------------------------------------------------------------------
(* What is absent stays absent: the source always, the destination once no  *)
(* helper is left.                                                          *)
Absent ==
    /\ disk.src = 0 => disk'.src = 0
    /\ Quiet => /\ Quiet'
                /\ disk.incoming = 0 => disk'.incoming = 0
                /\ disk.dst = 0 => disk'.dst = 0

(* The fields of the Move that the accounts are about.                      *)
SameAccounts ==
    /\ mv'.phase = mv.phase /\ mv'.intent = mv.intent /\ mv'.promote = mv.promote
    /\ mv'.reason = mv.reason /\ mv'.protected = mv.protected
    /\ mv'.required = mv.required

(* The values the accounts are about.                                       *)
LEMMA AccountTypes ==
  ASSUME IInv
  PROVE  /\ vol.owner \in {"src", "dst"} /\ mv \in Moves /\ mv.required \in Nat
         /\ journal \in Journals /\ journal.target \in {"none", "src", "incoming", "dst"}
         /\ journal.phase # "None" => journal.target # "none"
         /\ journal.target # vol.owner
         /\ pool.generation \in Nat /\ pool.inventory.generation \in Nat
         /\ pool.scan.generation \in Nat
<1>1. vol.owner \in {"src", "dst"} /\ mv \in Moves /\ journal \in Journals
  BY PassContext
<1>2. mv.required \in Nat
  BY <1>1 DEF Moves
<1>3. journal.target \in {"none", "src", "incoming", "dst"}
  BY <1>1 DEF Journals
<1>4. /\ journal.phase # "None" => journal.target # "none"
      /\ journal.target # vol.owner
  BY DEF IInv, JournalInv, CleanupSparesOwner
<1>5. /\ pool.generation \in Nat /\ pool.inventory.generation \in Nat
      /\ pool.scan.generation \in Nat
  BY DEF IInv, TypeOK, Inventories
<1> QED  BY <1>1, <1>2, <1>3, <1>4, <1>5

(* A copy beside the owner's, node by node.                                 *)
LEMMA ExtraIs ==
  /\ vol.owner = "src" => (Extra <=> disk.incoming # 0 \/ disk.dst # 0)
  /\ vol.owner = "dst" => (Extra <=> disk.incoming # 0 \/ disk.src # 0)
  /\ vol'.owner = "src" => (Extra' <=> disk'.incoming # 0 \/ disk'.dst # 0)
  /\ vol'.owner = "dst" => (Extra' <=> disk'.incoming # 0 \/ disk'.src # 0)
<1>1. Nodes \ {"src"} = {"dst"} /\ Nodes \ {"dst"} = {"src"}
  BY DEF Nodes
<1> QED  BY <1>1, Zenon DEF Extra

(* Behind the fence there are no helpers.                                   *)
LEMMA FencedIsQuiet ==
  ASSUME IInv, FenceInv, Fenced
  PROVE  Quiet
<1>1. CASE mv.required > 0
  BY <1>1 DEF FenceInv
<1>2. CASE At("act2", "RetireRecovery")
  <2>1. mv.recovery = "Retiring"
    BY <1>2 DEF IInv, PassInv, At, Grounds
  <2> QED  BY <2>1 DEF IInv, PhaseInv
<1> QED  BY <1>1, <1>2 DEF Fenced

(* An inventory that covers what is there goes on doing so.                 *)
LEMMA FenceKept ==
  ASSUME IInv, FenceInv, Absent, mv'.required = mv.required, mv'.phase = mv.phase,
         pool' = pool, Fenced' => Fenced
  PROVE  FenceInv'
<1>1. /\ mv'.required > 0 => Quiet' /\ mv'.phase = "Blocked"
      /\ pool'.generation >= 1
      /\ pool'.inventory.generation <= pool'.generation
      /\ pool'.scan.generation <= pool'.generation
  BY DEF FenceInv, Absent
<1>2. ASSUME Fenced' PROVE Covers(pool.inventory)' /\ Covers(pool.scan)'
  <2>1. /\ disk.incoming = 0 => disk'.incoming = 0
        /\ disk.dst = 0 => disk'.dst = 0
    BY <1>2, FencedIsQuiet DEF Absent
  <2>2. Covers(pool.inventory) /\ Covers(pool.scan)
    BY <1>2 DEF FenceInv
  <2> QED  BY <2>1, <2>2 DEF Covers
<1> QED  BY <1>1, <1>2 DEF FenceInv

(* A journal that is left alone still tells the truth.                      *)
LEMMA TargetKept ==
  ASSUME IInv, FenceInv, TargetInv, Absent, mv'.required = mv.required, journal' = journal
  PROVE  TargetInv'
<1>1. journal.target \in {"incoming", "dst"} => Quiet
  BY DEF TargetInv, FenceInv
<1>2. ASSUME journal.phase \in {"Purged", "Completed"}
      PROVE  disk'[journal.target] = 0
  <2>1. /\ journal.target \in {"src", "incoming", "dst"}
        /\ disk[journal.target] = 0
    BY <1>2, AccountTypes DEF TargetInv
  <2>2. CASE journal.target = "src"
    BY <2>1, <2>2 DEF Absent
  <2>3. CASE journal.target = "incoming"
    BY <1>1, <2>1, <2>3 DEF Absent
  <2>4. CASE journal.target = "dst"
    BY <1>1, <2>1, <2>4 DEF Absent
  <2> QED  BY <2>1, <2>2, <2>3, <2>4
<1> QED  BY <1>2 DEF TargetInv

(* The ends of a Move are not undone.                                       *)
LEMMA EndKept ==
  ASSUME IInv, EndInv, Absent, SameAccounts, vol'.owner = vol.owner,
         SourceClosed => SourceClosed'
  PROVE  EndInv'
<1>1. mv.reason = "RecoverySettled" => Quiet' /\ ~Extra'
  <2> SUFFICES ASSUME mv.reason = "RecoverySettled" PROVE Quiet' /\ ~Extra'
    OBVIOUS
  <2>1. Quiet /\ ~Extra /\ vol.owner \in {"src", "dst"}
    BY AccountTypes DEF EndInv
  <2>2. CASE vol.owner = "src"
    BY <2>1, <2>2, ExtraIs DEF Absent
  <2>3. CASE vol.owner = "dst"
    BY <2>1, <2>3, ExtraIs DEF Absent
  <2> QED  BY <2>1, <2>2, <2>3
<1> QED  BY <1>1 DEF EndInv, SameAccounts

(* A pass under way can still give its account.                             *)
LEMMA PassAccountsKept ==
  ASSUME SameAccounts, ctl'.step = ctl.step, ctl'.d = ctl.d,
         jobs.copy.state = "complete" => jobs'.copy.state = "complete",
         SourceClosed => SourceClosed',
         ctl.step # "idle" => PassAccounts(ctl.d, ctl.d.action)
  PROVE  (ctl.step # "idle" => PassAccounts(ctl.d, ctl.d.action))'
  BY DEF SameAccounts, PassAccounts, At

-----------------------------------------------------------------------------
(* Steps of everybody but the controller.                                   *)

(* Such a step keeps the accounts when it lets nothing appear and keeps     *)
(* what is said of helpers, journal and inventories.                        *)
LEMMA AccountsKept ==
  ASSUME IInv, AInv, SameAccounts, vol'.owner = vol.owner, ctl'.step = ctl.step,
         ctl'.d = ctl.d, Absent, SourceClosed => SourceClosed',
         jobs.copy.state = "complete" => jobs'.copy.state = "complete",
         HelperInv', TargetInv', FenceInv'
  PROVE  AInv'
<1>1. EndInv'
  BY EndKept DEF AInv
<1>2. (ctl.step # "idle" => PassAccounts(ctl.d, ctl.d.action))'
  BY PassAccountsKept DEF AInv
<1> QED  BY <1>1, <1>2 DEF AInv

(* A step that touches neither helpers, journal, inventories nor disks.     *)
LEMMA UntouchedAccounts ==
  ASSUME IInv, AInv, SameAccounts, vol'.owner = vol.owner, ctl'.step = ctl.step,
         ctl'.d = ctl.d, jobs'.copy = jobs.copy, jobs'.promote = jobs.promote,
         UNCHANGED <<journal, disk, pool>>
  PROVE  AInv'
<1>1. Absent
  BY DEF Absent, Quiet
<1>2. HelperInv'
  BY DEF AInv, HelperInv, SameAccounts
<1>3. mv'.required = mv.required /\ mv'.phase = mv.phase
  BY DEF SameAccounts
<1>4. Fenced' => Fenced
  BY <1>3 DEF Fenced, At
<1>5. TargetInv' /\ FenceInv'
  BY <1>1, <1>3, <1>4, TargetKept, FenceKept DEF AInv
<1>6. SourceClosed => SourceClosed'
  BY DEF SourceClosed, CleanupClosed
<1> QED  BY <1>1, <1>2, <1>5, <1>6, AccountsKept

(* The workload, the scheduler, the operator and faults of Pods.            *)
LEMMA WorldAccounts ==
  ASSUME IInv, AInv,
         \/ Workload \/ Scheduler \/ Preempt \/ Operator
         \/ (\E c \in Consumers : PublishInterrupted(c) \/ RollPod(c)) \/ UNCHANGED vars
  PROVE  AInv'
<1>1. mv \in Moves /\ vol \in Volumes
  BY PassContext
<1>2. UNCHANGED <<journal, disk, pool>> /\ jobs' = jobs
  BY Zenon DEF Workload, Scheduler, Preempt, Operator, PublishInterrupted, RollPod, vars
<1>3. vol'.owner = vol.owner
  <2>1. vol' = vol \/ \E s : vol' = [vol EXCEPT !.published = s]
    BY Zenon DEF Workload, MutatePod, ReleaseOwnerPlacement, BeginPublish, Mount, Unmount,
       ReconcilePublished, Scheduler, Preempt, Operator, PublishInterrupted, RollPod, vars
  <2> QED  BY <1>1, <2>1 DEF Volumes
<1>4. SameAccounts
  <2>1. \/ mv' = mv
        \/ mv' = [mv EXCEPT !.requested = TRUE]
        \/ mv' = [mv EXCEPT !.deleting = TRUE, !.exists = mv.protected]
    BY Zenon DEF Workload, Scheduler, Preempt, Operator, PublishInterrupted, RollPod, vars,
       Uncordon, RequestRecovery, DeleteMove, CloseWorkload, RetireClaim
  <2> QED  BY <1>1, <2>1, Zenon DEF SameAccounts, Moves
<1>5. ctl'.step = ctl.step /\ ctl'.d = ctl.d
  <2>1. ctl' = ctl \/ ctl' = Stale
    BY Zenon DEF Workload, Scheduler, Preempt, Operator, PublishInterrupted, RollPod, vars,
       Uncordon, RequestRecovery, DeleteMove, CloseWorkload, RetireClaim
  <2> QED  BY <2>1, StalePass DEF SamePass, IInv
<1> QED  BY <1>2, <1>3, <1>4, <1>5, UntouchedAccounts

-----------------------------------------------------------------------------
(* The helpers.                                                             *)

(* What a step of a helper, or its failure, needs; without expiry none      *)
(* touches a finished Job.                                                  *)
LEMMA HelperWorks ==
  ASSUME IInv, "expire" \notin Inputs, NEW j \in JobKind, Helper(j) \/ HelperFault(j)
  PROVE  /\ jobs[j].state \in {"active", "deleting"}
         /\ jobs[j].state = "deleting" /\ jobs[j].pc = "idle" => HelperGone(j)
         /\ disk'.src = disk.src
         /\ disk.promoted => disk'.promoted
         /\ UNCHANGED <<vol, mv, journal, ctl, pool>>
         /\ \E y : jobs' = [jobs EXCEPT ![j] = y]
<1>1. UNCHANGED <<vol, mv, journal, ctl, pool>>
  BY DEF Helper, HelperFault
<1>2. \E y : jobs' = [jobs EXCEPT ![j] = y]
  BY Zenon DEF Helper, HelperFault, HelperAuthorize, HelperFinish, HelperRefused,
     HelperGone, CopyBegin, CopyEnd, PromoteRename, JobAt, JobFails
<1>3. /\ jobs[j].state \in {"active", "deleting"}
      /\ jobs[j].state = "deleting" /\ jobs[j].pc = "idle" => HelperGone(j)
  BY DEF Helper, HelperFault, Fault, HelperAuthorize, HelperFinish, HelperRefused,
     HelperGone, CopyBegin, CopyEnd, PromoteRename, Running
<1>4. disk \in Disks
  BY DEF IInv, TypeOK
<1>5. disk'.src = disk.src /\ (disk.promoted => disk'.promoted)
  <2>1. CASE HelperFinish(j)
    <3>1. \/ disk' = [disk EXCEPT !.receipt = TRUE]
          \/ disk' = [disk EXCEPT !.promoted = TRUE, !.meta = FALSE]
          \/ disk' = disk
      BY <2>1 DEF HelperFinish, JobKind
    <3> QED  BY <1>4, <3>1, Zenon DEF Disks
  <2>2. CASE CopyBegin
    <3>1. disk' = disk \/ \E m, i : disk' = [disk EXCEPT !.meta = m, !.incoming = i]
      BY <2>2, Zenon DEF CopyBegin
    <3> QED  BY <1>4, <3>1, Zenon DEF Disks
  <2>3. CASE CopyEnd
    BY <1>4, <2>3 DEF CopyEnd, Disks
  <2>4. CASE PromoteRename
    <3>1. disk' = disk \/ \E m, i : disk' = [disk EXCEPT !.dst = m, !.incoming = i]
      BY <2>4, ZenonT(40) DEF PromoteRename
    <3> QED  BY <1>4, <3>1, ZenonT(30) DEF Disks
  <2>5. CASE HelperAuthorize(j) \/ HelperRefused(j) \/ HelperGone(j) \/ HelperFault(j)
    BY <2>5 DEF HelperAuthorize, HelperRefused, HelperGone, HelperFault
  <2> QED  BY <2>1, <2>2, <2>3, <2>4, <2>5 DEF Helper
<1> QED  BY <1>1, <1>2, <1>3, <1>5, Zenon

(* The copy helper leaves the accounts: behind a recorded promotion it can  *)
(* only be deleted.                                                         *)
LEMMA CopyAccounts ==
  ASSUME IInv, IInv', AInv, "expire" \notin Inputs, Helper("copy") \/ HelperFault("copy")
  PROVE  HelperInv' /\ ~Quiet /\ jobs.copy.state # "complete"
<1>1. "copy" \in JobKind /\ jobs \in JobSets
  BY DEF JobKind, IInv, TypeOK
<1>2. /\ jobs.copy.state \in {"active", "deleting"}
      /\ jobs.copy.state = "deleting" /\ jobs.copy.pc = "idle" => HelperGone("copy")
      /\ disk.promoted => disk'.promoted
      /\ UNCHANGED <<vol, mv, journal, ctl, pool>>
  BY <1>1, HelperWorks
<1>3. ~Quiet
  BY <1>2 DEF Quiet, NoJob
<1>4. CASE mv.promote
  <2>1. jobs.copy.state = "deleting" /\ HelperGone("copy") /\ mv.phase = "Blocked"
    BY <1>2, <1>4 DEF AInv, HelperInv
  <2>2. jobs' = [jobs EXCEPT !.copy = NoJob] /\ disk' = disk
    BY <2>1, ZenonT(30) DEF HelperGone
  <2>3. jobs'.copy = NoJob /\ jobs'.promote = jobs.promote
    BY <1>1, <2>2 DEF JobSets
  <2> QED  BY <1>2, <1>3, <2>1, <2>2, <2>3 DEF AInv, HelperInv, NoJob
<1>5. CASE ~mv.promote
  <2>1. ~disk'.promoted /\ jobs'.promote.pc = "idle" /\ ~disk.promoted
    BY <1>2, <1>5 DEF IInv, JobInv
  <2> QED  BY <1>2, <1>3, <1>5, <2>1 DEF AInv, HelperInv
<1> QED  BY <1>4, <1>5

(* The promotion helper moves the incoming copy and leaves nothing there.   *)
LEMMA PromotionAccounts ==
  ASSUME IInv, AInv, "expire" \notin Inputs, Helper("promote") \/ HelperFault("promote")
  PROVE  HelperInv' /\ ~Quiet /\ jobs'.copy = jobs.copy
<1>1. "promote" \in JobKind /\ jobs \in JobSets /\ jobs.promote \in JobRecords
  BY JobTypes DEF JobKind, IInv, TypeOK
<1>2. /\ jobs.promote.state \in {"active", "deleting"}
      /\ disk.promoted => disk'.promoted
      /\ UNCHANGED <<vol, mv, journal, ctl, pool>>
      /\ \E y : jobs' = [jobs EXCEPT !["promote"] = y]
  BY <1>1, HelperWorks
<1>3. ~Quiet
  BY <1>2 DEF Quiet, NoJob
<1>4. jobs'.copy = jobs.copy
  BY <1>1, <1>2 DEF JobSets
<1>5. disk \in Disks
  BY DEF IInv, TypeOK
<1>6. \A p : JobAt("promote", p) => jobs'.promote.pc = p
  BY <1>1 DEF JobAt, JobSets, JobRecords
<1>7. disk'.promoted \/ jobs'.promote.pc = "written" => disk'.incoming = 0
  <2>1. CASE HelperFinish("promote")
    <3>1. disk' = [disk EXCEPT !.promoted = TRUE, !.meta = FALSE]
      BY <2>1 DEF HelperFinish
    <3>2. disk.incoming = 0
      BY <2>1 DEF HelperFinish, AInv, HelperInv
    <3> QED  BY <1>5, <3>1, <3>2 DEF Disks
  <2>2. CASE PromoteRename
    <3> DEFINE replayed == disk.promoted /\ disk.dst # 0 /\ ~(disk.meta /\ disk.incoming # 0)
               moved == ~disk.promoted /\ disk.meta /\ disk.incoming = 0 /\ disk.dst # 0
               moves == ~disk.promoted /\ disk.meta /\ disk.incoming # 0 /\ disk.dst = 0
    <3>1. /\ disk' = IF moves THEN [disk EXCEPT !.dst = disk.incoming, !.incoming = 0]
                     ELSE disk
          /\ replayed \/ moved \/ moves \/ JobFails("promote")
      BY <2>2 DEF PromoteRename
    <3>2. JobFails("promote") => jobs'.promote.pc = "idle"
      BY <1>1 DEF JobFails, JobSets
    <3>3. CASE moves
      BY <1>5, <3>1, <3>3 DEF Disks
    <3>4. CASE ~moves
      BY <3>1, <3>2, <3>4 DEF AInv, HelperInv
    <3> QED  BY <3>3, <3>4
  <2>3. CASE HelperAuthorize("promote")
    <3>1. disk' = disk /\ JobAt("promote", "authorized")
      BY <2>3 DEF HelperAuthorize
    <3> QED  BY <1>6, <3>1 DEF AInv, HelperInv
  <2>4. CASE HelperRefused("promote") \/ HelperGone("promote") \/ HelperFault("promote")
    <3>1. disk' = disk
      BY <2>4 DEF HelperRefused, HelperGone, HelperFault
    <3>2. jobs'.promote.pc = "idle"
      BY <1>1, <1>6, <2>4 DEF HelperRefused, HelperGone, HelperFault, Fault, JobFails,
         JobSets, NoJob
    <3> QED  BY <3>1, <3>2 DEF AInv, HelperInv
  <2> QED  BY <2>1, <2>2, <2>3, <2>4 DEF Helper
<1> QED  BY <1>2, <1>3, <1>4, <1>7 DEF AInv, HelperInv

(* Every step of a helper keeps the accounts.                               *)
LEMMA HelperAccounts ==
  ASSUME IInv, IInv', AInv, "expire" \notin Inputs, NEW j \in JobKind,
         Helper(j) \/ HelperFault(j)
  PROVE  AInv'
<1>1. /\ disk'.src = disk.src
      /\ UNCHANGED <<vol, mv, journal, ctl, pool>>
      /\ \E y : jobs' = [jobs EXCEPT ![j] = y]
  BY HelperWorks
<1>2. SameAccounts /\ (SourceClosed => SourceClosed') /\ (Fenced' => Fenced)
  BY <1>1 DEF SameAccounts, SourceClosed, CleanupClosed, Fenced, At
<1>3. CASE j = "verify"
  <2>1. disk' = disk
    BY <1>3
      DEF Helper, HelperFault, HelperAuthorize, HelperFinish, HelperRefused, HelperGone
  <2>2. jobs'.copy = jobs.copy /\ jobs'.promote = jobs.promote
    BY <1>1, <1>3 DEF IInv, TypeOK, JobSets
  <2> QED  BY <1>1, <1>2, <2>1, <2>2, UntouchedAccounts
<1>4. CASE j # "verify"
  <2>1. /\ HelperInv' /\ ~Quiet
        /\ jobs.copy.state = "complete" => jobs'.copy.state = "complete"
    BY <1>4, CopyAccounts, PromotionAccounts DEF JobKind
  <2>2. Absent
    BY <1>1, <2>1 DEF Absent
  <2>3. TargetInv' /\ FenceInv'
    BY <1>1, <1>2, <2>2, TargetKept, FenceKept DEF AInv
  <2> QED  BY <1>1, <1>2, <2>1, <2>2, <2>3, AccountsKept
<1> QED  BY <1>3, <1>4

-----------------------------------------------------------------------------
(* The workload's writes, the cleanup executor and the scanner.             *)

(* A write goes to the owner's copy, which is there already.                *)
LEMMA WriteAccounts ==
  ASSUME IInv, AInv, NEW c \in Consumers, Write(c)
  PROVE  AInv'
<1>1. /\ pods[c].node = vol.owner /\ disk[vol.owner] # 0 /\ disk \in Disks
      /\ vol.owner \in {"src", "dst"}
  BY AccountTypes
    DEF Write, IInv, TypeOK, PodInv, MountsAreFenced, DataInv, OwnerHasEveryWrite
<1>2. /\ disk' = [disk EXCEPT ![vol.owner] = written']
      /\ UNCHANGED <<vol, mv, journal, ctl, jobs, pool>>
  BY <1>1 DEF Write
<1>3. /\ disk'.incoming = disk.incoming /\ disk'.promoted = disk.promoted
      /\ disk.src = 0 => disk'.src = 0
      /\ disk.dst = 0 => disk'.dst = 0
  BY <1>1, <1>2 DEF Disks
<1>4. Absent
  BY <1>2, <1>3 DEF Absent, Quiet
<1>5. SameAccounts /\ (SourceClosed => SourceClosed') /\ (Fenced' => Fenced)
  BY <1>2 DEF SameAccounts, SourceClosed, CleanupClosed, Fenced, At
<1>6. HelperInv'
  BY <1>2, <1>3 DEF AInv, HelperInv
<1>7. TargetInv' /\ FenceInv'
  BY <1>2, <1>4, <1>5, TargetKept, FenceKept DEF AInv
<1> QED  BY <1>2, <1>4, <1>5, <1>6, <1>7, AccountsKept

(* A purge empties exactly what the journal names; a review that is asked   *)
(* for changes nothing.                                                     *)
LEMMA ExecutorAccounts ==
  ASSUME IInv, AInv, Executor \/ CleanupReview
  PROVE  AInv'
<1>1. jobs \in JobSets /\ disk \in Disks /\ journal \in Journals
  BY DEF IInv, TypeOK
<1>2. UNCHANGED <<vol, mv, pool>>
  BY DEF Executor, CleanupReview
<1>3. ctl'.step = ctl.step /\ ctl'.d = ctl.d
  <2>1. ctl' = ctl \/ ctl' = Stale
    BY DEF Executor, CleanupReview, PurgeAuthorize, Purge
  <2> QED  BY <2>1, StalePass DEF SamePass, IInv
<1>4. SameAccounts /\ (Fenced' => Fenced)
  BY <1>2, <1>3 DEF SameAccounts, Fenced, At
<1>5. jobs'.copy = jobs.copy /\ jobs'.promote = jobs.promote
  <2>1. jobs' = jobs \/ \E s : jobs' = [jobs EXCEPT !.purge = s]
    BY Zenon DEF Executor, CleanupReview, PurgeAuthorize, Purge
  <2> QED  BY <1>1, <2>1 DEF JobSets
<1>6. CASE Executor /\ PurgeAuthorize
  BY <1>2, <1>3, <1>4, <1>5, <1>6, UntouchedAccounts DEF PurgeAuthorize
<1>7. CASE Executor /\ Purge
  <2>1. journal.phase = "Running" /\ journal.target \in {"src", "incoming", "dst"}
    BY <1>7, AccountTypes DEF Purge, IInv, JournalInv
  <2>2. journal' = [journal EXCEPT !.phase = "Purged"]
    BY <1>7 DEF Purge
  <2>3. journal'.target = journal.target /\ journal'.phase = "Purged"
    BY <1>1, <2>2 DEF Journals
  <2>4. /\ disk'[journal.target] = 0 /\ disk'.promoted = disk.promoted
        /\ \A x \in {"src", "incoming", "dst"} : disk[x] = 0 => disk'[x] = 0
    <3>1. CASE journal.target = "incoming"
      <4>1. disk' = [disk EXCEPT !.incoming = 0, !.meta = FALSE]
        BY <1>7, <3>1 DEF Purge
      <4> QED  BY <1>1, <3>1, <4>1 DEF Disks
    <3>2. CASE journal.target # "incoming"
      <4>1. disk' = [disk EXCEPT ![journal.target] = 0]
        BY <1>7, <3>2 DEF Purge
      <4> QED  BY <1>1, <2>1, <3>2, <4>1 DEF Disks
    <3> QED  BY <3>1, <3>2
  <2>5. Absent
    BY <1>5, <2>4 DEF Absent, Quiet
  <2>6. SourceClosed => SourceClosed'
    BY <2>1 DEF SourceClosed, CleanupClosed, Journal
  <2>7. HelperInv'
    BY <1>2, <1>5, <2>4 DEF AInv, HelperInv
  <2>8. TargetInv'
    BY <1>2, <2>3, <2>4 DEF AInv, TargetInv
  <2>9. FenceInv'
    BY <1>2, <1>4, <2>5, FenceKept DEF AInv
  <2> QED  BY <1>2, <1>3, <1>4, <1>5, <2>5, <2>6, <2>7, <2>8, <2>9, AccountsKept
<1>8. CASE CleanupReview
  <2>1. /\ disk' = disk /\ journal.phase = "Running"
        /\ journal' = [journal EXCEPT !.phase = "NeedsReview"]
    BY <1>8 DEF CleanupReview
  <2>2. journal'.target = journal.target /\ journal'.phase = "NeedsReview"
    BY <1>1, <2>1 DEF Journals
  <2>3. Absent
    BY <1>5, <2>1 DEF Absent, Quiet
  <2>4. SourceClosed => SourceClosed'
    BY <2>1 DEF SourceClosed, CleanupClosed, Journal
  <2>5. HelperInv' /\ TargetInv'
    BY <1>2, <1>5, <2>1, <2>2 DEF AInv, HelperInv, TargetInv
  <2>6. FenceInv'
    BY <1>2, <1>4, <2>3, FenceKept DEF AInv
  <2> QED  BY <1>2, <1>3, <1>4, <1>5, <2>3, <2>4, <2>5, <2>6, AccountsKept
<1> QED  BY <1>6, <1>7, <1>8 DEF Executor

(* A scan covers what is there when it begins, and is published only while  *)
(* the generation is still the one it began with.                           *)
LEMMA ScannerAccounts ==
  ASSUME IInv, AInv, Scanner
  PROVE  AInv'
<1>1. UNCHANGED <<vol, mv, journal, ctl, jobs, disk>>
  BY DEF Scanner
<1>2. /\ SameAccounts /\ Absent /\ (SourceClosed => SourceClosed')
      /\ HelperInv' /\ TargetInv' /\ (Fenced' => Fenced)
  BY <1>1 DEF SameAccounts, Absent, Quiet, SourceClosed, CleanupClosed, AInv, HelperInv,
     TargetInv, Fenced, At
<1>3. /\ pool \in [generation : Nat, inventory : Inventories, scan : Inventories]
      /\ pool.generation \in Nat /\ pool.generation >= 1
      /\ pool.inventory.generation <= pool.generation
      /\ pool.scan.generation <= pool.generation
      /\ Fenced => Covers(pool.inventory) /\ Covers(pool.scan)
  BY AccountTypes DEF IInv, TypeOK, AInv, FenceInv
<1>4. /\ pool'.generation = pool.generation
      /\ pool'.inventory \in {pool.inventory, pool.scan}
      /\ pool'.scan \in {DestinationView, NoInventory}
  BY <1>3, Zenon DEF Scanner, ScanBegin, ScanEnd
<1>5. /\ DestinationView.generation = pool.generation /\ NoInventory.generation = 0
      /\ disk.incoming # 0 => DestinationView.incoming
      /\ disk.dst # 0 => DestinationView.serving
  BY Zenon DEF DestinationView, NoInventory
<1>6. /\ pool'.inventory.generation <= pool'.generation
      /\ pool'.scan.generation <= pool'.generation
  BY <1>3, <1>4, <1>5
<1>7. Fenced' => Covers(pool.inventory)' /\ Covers(pool.scan)'
  <2>1. Fenced => Covers(pool.inventory)'
    BY <1>1, <1>3, <1>4 DEF Covers
  <2>2. Covers(pool.scan)'
    <3> HIDE DEF DestinationView, NoInventory
    <3>1. CASE pool'.scan = DestinationView
      BY <1>1, <1>5, <3>1 DEF Covers
    <3>2. CASE pool'.scan = NoInventory
      BY <1>3, <1>4, <1>5, <3>2 DEF Covers
    <3> QED  BY <1>4, <3>1, <3>2
  <2> QED  BY <1>2, <2>1, <2>2
<1>8. FenceInv'
  BY <1>1, <1>3, <1>4, <1>6, <1>7 DEF FenceInv, AInv, Quiet
<1> QED  BY <1>1, <1>2, <1>8, AccountsKept

-----------------------------------------------------------------------------
(* The controller.                                                          *)

(* The pass goes on with its decision, having done what the decision was    *)
(* about.                                                                   *)
GoesOn ==
    /\ ctl'.d = ctl.d
    /\ ctl.d.action = "EnsurePromotion" => mv'.promote
    /\ ctl.d.action = "MarkSucceeded" => SourceClosed'

PassAccountsNext == ctl'.step # "idle" => PassAccounts(ctl.d, ctl.d.action)'

(* A pass that has ended, or goes on, can give its account.                 *)
LEMMA PassGoesOn ==
  ASSUME AInv, ctl.step # "idle", mv'.phase = mv.phase, mv'.intent = mv.intent,
         mv.promote => mv'.promote, SourceClosed => SourceClosed',
         ctl'.step = "idle" \/ GoesOn
  PROVE  PassAccountsNext
<1> SUFFICES ASSUME GoesOn PROVE PassAccounts(ctl.d, ctl.d.action)'
  BY DEF PassAccountsNext
<1>1. PassAccounts(ctl.d, ctl.d.action)
  BY DEF AInv
<1> QED  BY <1>1 DEF PassAccounts, GoesOn, At

(* An effect beside what the accounts are about.                            *)
LEMMA BesideAccounts ==
  ASSUME IInv, AInv, SameAccounts, UNCHANGED <<journal, disk, pool>>,
         jobs'.copy = jobs.copy, jobs'.promote = jobs.promote, vol'.owner = vol.owner,
         At("act2", "RetireRecovery")' => At("act2", "RetireRecovery"), PassAccountsNext
  PROVE  AInv'
<1>1. Absent
  BY DEF Absent, Quiet
<1>2. mv'.required = mv.required /\ mv'.phase = mv.phase
  BY DEF SameAccounts
<1>3. Fenced' => Fenced
  BY <1>2 DEF Fenced
<1>4. HelperInv'
  BY DEF AInv, HelperInv, SameAccounts
<1>5. TargetInv' /\ FenceInv'
  BY <1>1, <1>2, <1>3, TargetKept, FenceKept DEF AInv
<1>6. SourceClosed => SourceClosed'
  BY DEF SourceClosed, CleanupClosed
<1>7. EndInv'
  BY <1>1, <1>6, EndKept DEF AInv
<1> QED  BY <1>4, <1>5, <1>7 DEF AInv, PassAccountsNext

(* Effects on the Volume, the Pods and the verification Job.                *)
BesideEffect ==
    \/ ctl.step = "act" /\
          \/ ctl.d.action = "ClaimSource" /\ SetVolume(ctl.vol.phase, TRUE)
          \/ ctl.d.action = "RestoreSource" /\ SetVolume("Ready", ctl.vol.locked)
          \/ ctl.d.action = "ReleaseSource" /\ SetVolume(ctl.vol.phase, FALSE)
          \/ ctl.d.action = "EnsurePlacement" /\ EnsurePlacement
          \/ ctl.d.action = "EnsureCopy" /\ EnsureCopy
          \/ ctl.d.action = "DeletePlacement" /\ DeletePlacement
          \/ ctl.d.action = "ReleasePlacement" /\ ReleasePlacement
          \/ ctl.d.action = "ConfirmCleanup" /\ ConfirmCleanup
          \/ ctl.d.action = "MarkSucceeded" /\ MarkSucceeded
          \/ ctl.d.action = "MarkBlocked" /\ MarkBlocked
          \/ ctl.d.action = "RequestSettlement" /\ RequestSettlement
          \/ ctl.d.action = "VerifyRecovery" /\ VerifyRecovery
          \/ ctl.d.action = "ResumeRecovery" /\ ResumeRecovery
          \/ ctl.d.action = "CompleteRecovery" /\ CompleteRecovery
    \/ ctl.step = "act2" /\ ctl.d.action = "StartDisruption" /\ EvictConsumer

LEMMA BesideEffectAccounts ==
  ASSUME IInv, AInv, BesideEffect, UNCHANGED <<cluster, disk, written, faults>>
  PROVE  AInv'
<1>1. UNCHANGED <<mv, journal, pool>>
  BY Zenon DEF BesideEffect, SetVolume, EnsurePlacement, EnsureCopy, DeletePlacement,
     ReleasePlacement, ConfirmCleanup, MarkSucceeded, MarkBlocked, RequestSettlement,
     VerifyRecovery, ResumeRecovery, CompleteRecovery, EvictConsumer
<1>2. End \/ Done \/ \E v : Continue(v)
  BY ZenonT(30) DEF BesideEffect, SetVolume, EnsurePlacement, EnsureCopy, DeletePlacement,
     ReleasePlacement, ConfirmCleanup, MarkSucceeded, MarkBlocked, RequestSettlement,
     VerifyRecovery, ResumeRecovery, CompleteRecovery, EvictConsumer
<1>3. ctl.d.action = "MarkSucceeded" => End \/ SourceClosed
  BY Zenon DEF BesideEffect, MarkSucceeded, SourceClosed
<1>4. vol'.owner = vol.owner
  <2>1. \A p, l : SetVolume(p, l) => vol'.owner = vol.owner
    BY DEF SetVolume, StateMatches, Written, Volume
  <2>2. CASE \/ ctl.d.action = "ClaimSource" /\ SetVolume(ctl.vol.phase, TRUE)
             \/ ctl.d.action = "RestoreSource" /\ SetVolume("Ready", ctl.vol.locked)
             \/ ctl.d.action = "ReleaseSource" /\ SetVolume(ctl.vol.phase, FALSE)
    BY <2>1, <2>2, ZenonT(30)
  <2>3. CASE \/ EnsurePlacement \/ EnsureCopy \/ DeletePlacement \/ ReleasePlacement
             \/ ConfirmCleanup \/ VerifyRecovery \/ EvictConsumer
    BY <2>3, Zenon DEF EnsurePlacement, EnsureCopy, DeletePlacement, ReleasePlacement,
       ConfirmCleanup, VerifyRecovery, EvictConsumer
  <2>4. CASE ctl.step = "act" /\ ctl.d.action = "MarkSucceeded" /\ MarkSucceeded
    BY <2>4, MarkSucceededStep
  <2>5. CASE /\ ctl.step = "act"
             /\ \/ ctl.d.action = "MarkBlocked" /\ MarkBlocked
                \/ ctl.d.action = "RequestSettlement" /\ RequestSettlement
    BY <2>5, FenceStep
  <2>6. CASE ctl.step = "act" /\ ctl.d.action = "ResumeRecovery" /\ ResumeRecovery
    BY <2>6, ResumeRecoveryStep
  <2>7. CASE ctl.step = "act" /\ ctl.d.action = "CompleteRecovery" /\ CompleteRecovery
    BY <2>7, CompleteRecoveryStep
  <2> QED  BY <2>2, <2>3, <2>4, <2>5, <2>6, <2>7, Zenon DEF BesideEffect
<1>5. jobs'.copy = jobs.copy /\ jobs'.promote = jobs.promote
  <2>1. jobs' = jobs \/ \E x : jobs' = [jobs EXCEPT !.verify = x]
    BY Zenon DEF BesideEffect, SetVolume, EnsurePlacement, EnsureCopy, DeletePlacement,
       ReleasePlacement, ConfirmCleanup, MarkSucceeded, MarkBlocked, RequestSettlement,
       VerifyRecovery, ResumeRecovery, CompleteRecovery, EvictConsumer
  <2>2. jobs \in JobSets
    BY HelperContext
  <2> QED  BY <2>1, <2>2 DEF JobSets
<1>6. ctl.step # "idle" /\ ctl.d.action \notin {"EnsurePromotion", "RetireRecovery"}
  BY Zenon DEF BesideEffect
<1>7. ctl'.step = "idle" \/ GoesOn
  BY <1>1, <1>2, <1>3, <1>6, PassBecomes DEF GoesOn, SourceClosed, CleanupClosed
<1>8. SourceClosed => SourceClosed'
  BY <1>1 DEF SourceClosed, CleanupClosed
<1>9. PassAccountsNext
  BY <1>1, <1>6, <1>7, <1>8, PassGoesOn
<1>10. ~At("act2", "RetireRecovery")'
  BY <1>6, <1>7 DEF At, GoesOn
<1>11. SameAccounts
  BY <1>1 DEF SameAccounts
<1> QED  BY <1>1, <1>4, <1>5, <1>9, <1>10, <1>11, BesideAccounts

(* The disruption of a Move that has no disk plan yet.                      *)
LEMMA StartDisruptionAccounts ==
  ASSUME IInv, AInv, ctl.step = "act", ctl.d.action = "StartDisruption", StartDisruption,
         UNCHANGED <<cluster, disk, written, faults>>
  PROVE  AInv'
<1>1. UNCHANGED <<mv, journal, jobs, pool>> /\ vol'.owner = vol.owner
  BY StartDisruptionStep, ZenonT(30) DEF StartDisruption
<1>2. \/ ctl' = [ctl EXCEPT !.d = Decision("Blocked", "none", "MarkBlocked"), !.vol = vol]
      \/ End \/ \E v : Continue(v)
  BY Zenon DEF StartDisruption
<1>3. SameAccounts /\ (SourceClosed => SourceClosed')
  BY <1>1 DEF SameAccounts, SourceClosed, CleanupClosed
<1>4. CASE ctl' = [ctl EXCEPT !.d = Decision("Blocked", "none", "MarkBlocked"), !.vol = vol]
  <2>1. ctl'.d.phase = "Blocked" /\ ctl'.d.action = "MarkBlocked"
    <3>1. ctl \in Passes
      BY PassContext
    <3>2. ctl'.d = Decision("Blocked", "none", "MarkBlocked")
      BY <1>4, <3>1 DEF Passes
    <3> QED  BY <3>2 DEF Decision
  <2>2. PassAccountsNext
    BY <2>1 DEF PassAccountsNext, PassAccounts
  <2>3. ~At("act2", "RetireRecovery")'
    BY <2>1 DEF At
  <2> QED  BY <1>1, <1>3, <2>2, <2>3, BesideAccounts
<1>5. CASE End \/ \E v : Continue(v)
  <2>1. ctl'.step = "idle" \/ (ctl'.d = ctl.d /\ GoesOn)
    BY <1>5, PassBecomes DEF GoesOn
  <2>2. PassAccountsNext
    BY <1>1, <1>3, <2>1, PassGoesOn
  <2>3. ~At("act2", "RetireRecovery")'
    BY <2>1 DEF At
  <2> QED  BY <1>1, <1>3, <2>2, <2>3, BesideAccounts
<1> QED  BY <1>2, <1>4, <1>5

(* A write of the Move that ends the pass, keeps phase, promotion and scan  *)
(* fence, and gives its own account of the ends.                            *)
LEMMA RecordAccounts ==
  ASSUME IInv, AInv, UNCHANGED <<vol, journal, jobs, disk, pool>>, ctl'.step = "idle",
         mv'.phase = mv.phase, mv'.promote = mv.promote, mv'.required = mv.required, EndInv'
  PROVE  AInv'
<1>1. Absent
  BY DEF Absent, Quiet
<1>2. Fenced' => Fenced
  BY DEF Fenced, At
<1>3. HelperInv'
  BY DEF AInv, HelperInv
<1>4. TargetInv' /\ FenceInv'
  BY <1>1, <1>2, TargetKept, FenceKept DEF AInv
<1> QED  BY <1>3, <1>4 DEF AInv

(* The disks and what is left on them, when neither changes.                *)
LEMMA SameEnds ==
  ASSUME UNCHANGED <<vol, journal, jobs, disk>>
  PROVE  (SourceClosed => SourceClosed') /\ (Quiet => Quiet') /\ (~Extra => ~Extra')
  BY Zenon DEF SourceClosed, CleanupClosed, Quiet, Extra

(* The finalizer is taken, or given back at an end of the Move.             *)
LEMMA ProtectionAccounts ==
  ASSUME IInv, AInv, ctl.step = "act", UNCHANGED <<cluster, disk, written, faults>>,
         \/ ctl.d.action = "ProtectMove" /\ ProtectMove
         \/ ctl.d.action = "FinalizeHistory" /\ FinalizeHistory
  PROVE  AInv'
<1>1. /\ UNCHANGED <<vol, journal, jobs, pool>> /\ ctl'.step = "idle"
      /\ mv \in Moves /\ EndInv
  BY PassBecomes, PassContext DEF ProtectMove, FinalizeHistory, AInv
<1>2. \/ mv' = mv
      \/ mv' = [mv EXCEPT !.protected = TRUE]
      \/ /\ mv.phase = "Cancelled" \/ MoveCleanupSettled
         /\ mv' = [mv EXCEPT !.protected = FALSE, !.exists = ~mv.deleting]
      \/ mv' = [mv EXCEPT !.exists = vol.locked]
  BY Zenon DEF ProtectMove, FinalizeHistory
<1>3. /\ mv'.phase = mv.phase /\ mv'.intent = mv.intent /\ mv'.promote = mv.promote
      /\ mv'.required = mv.required /\ mv'.reason = mv.reason
      /\ \/ mv.protected => mv'.protected
         \/ mv.phase = "Cancelled" \/ MoveCleanupSettled
  BY <1>1, <1>2, ZenonT(30) DEF Moves
<1>4. EndInv'
  BY <1>1, <1>3, SameEnds DEF EndInv, MoveCleanupSettled
<1> QED  BY <1>1, <1>3, <1>4, RecordAccounts

(* Capacity is granted, approved with the disk plan, or refused.  A Move    *)
(* that still holds its reservation has no disk plan.                       *)
LEMMA CapacityAccounts ==
  ASSUME IInv, AInv, ctl.step = "act", End, UNCHANGED disk,
         UNCHANGED <<vol, journal, jobs, pool>>,
         \/ ctl.d.action = "ReservePreparation" /\ ReservePreparation
         \/ ctl.d.action = "EnsureCapacity" /\ EnsureCapacity
         \/ ReservationRefused
         \/ SpaceRefused
  PROVE  AInv'
<1>1. /\ ctl'.step = "idle" /\ mv \in Moves /\ EndInv
      /\ mv.hold => ~mv.intent
      /\ vol.locked => mv.protected
      /\ ctl.d.action = "EnsureCapacity" => mv.phase = "WaitingForCapacity"
  BY PassBecomes, PassContext, ZenonT(30)
    DEF AInv, IInv, PlanInv, VolumeInv, PassInv, Grounds
<1>2. \/ mv' = mv
      \/ mv' = [mv EXCEPT !.hold = TRUE]
      \/ /\ ctl.d.action = "EnsureCapacity" /\ vol.locked
         /\ mv' = [mv EXCEPT !.hold = FALSE, !.approved = TRUE, !.intent = TRUE,
                             !.reason = "none"]
      \/ mv.hold /\ mv' = [mv EXCEPT !.reason = "Space"]
  BY Zenon DEF ReservePreparation, EnsureCapacity, ReservationRefused, SpaceRefused
<1>3. /\ mv'.phase = mv.phase /\ mv'.promote = mv.promote
      /\ mv'.required = mv.required /\ mv'.protected = mv.protected
      /\ \/ mv'.intent = mv.intent /\ mv'.reason = mv.reason
         \/ /\ ctl.d.action = "EnsureCapacity" /\ vol.locked
            /\ mv'.reason = "none"
         \/ mv.hold /\ mv'.intent = mv.intent /\ mv'.reason = "Space"
  BY <1>1, <1>2, ZenonT(60) DEF Moves
<1>4. EndInv'
  BY <1>1, <1>3, SameEnds DEF EndInv
<1> QED  BY <1>1, <1>3, <1>4, RecordAccounts

(* A promotion is recorded behind a complete copy Job.                      *)
LEMMA EnsurePromotionAccounts ==
  ASSUME IInv, AInv, ctl.step = "act", ctl.d.action = "EnsurePromotion", EnsurePromotion,
         UNCHANGED <<cluster, disk, written, faults>>
  PROVE  AInv'
<1>1. UNCHANGED <<vol, journal, jobs, pool>> /\ mv \in Moves
  BY PassContext DEF EnsurePromotion
<1>2. CASE mv' = mv /\ End
  <2>1. SameAccounts /\ ctl'.step = "idle"
    BY <1>2, PassBecomes DEF SameAccounts
  <2>2. PassAccountsNext /\ ~At("act2", "RetireRecovery")'
    BY <2>1 DEF PassAccountsNext, At
  <2> QED  BY <1>1, <2>1, <2>2, BesideAccounts
<1>3. CASE mv' = [mv EXCEPT !.promote = TRUE] /\ Continue(ctl.vol)
  <2>1. /\ mv'.phase = mv.phase /\ mv'.intent = mv.intent /\ mv'.promote
        /\ mv'.reason = mv.reason /\ mv'.protected = mv.protected
        /\ mv'.required = mv.required
    BY <1>1, <1>3 DEF Moves
  <2>2. ctl'.d = ctl.d /\ GoesOn
    BY <1>3, <2>1, PassBecomes DEF GoesOn
  <2>3. /\ mv.promote \/ jobs.copy.state = "complete"
        /\ mv.phase # "Blocked"
    BY DEF AInv, PassAccounts
  <2>4. jobs.copy.state = "complete" => jobs.copy.pc = "idle"
    BY DEF IInv, JobInv, JobKind
  <2>5. HelperInv'
    BY <1>1, <2>1, <2>3, <2>4 DEF AInv, HelperInv
  <2>6. Absent /\ (Fenced' => Fenced)
    BY <1>1, <2>1, <2>2 DEF Absent, Quiet, Fenced, At
  <2>7. TargetInv' /\ FenceInv'
    BY <1>1, <2>1, <2>6, TargetKept, FenceKept DEF AInv
  <2>8. EndInv'
    BY <1>1, <2>1, SameEnds DEF AInv, EndInv
  <2>9. PassAccountsNext
    BY <1>1, <2>1, <2>2, SameEnds, PassGoesOn
  <2> QED  BY <2>5, <2>7, <2>8, <2>9 DEF AInv, PassAccountsNext
<1> QED  BY <1>2, <1>3 DEF EnsurePromotion

(* The fence that was opened is recorded.                                   *)
LEMMA RecordRollbackScanAccounts ==
  ASSUME IInv, AInv, ctl.step = "act2", ctl.d.action = "RetireRecovery", RecordRollbackScan,
         UNCHANGED <<cluster, disk, written, faults>>
  PROVE  AInv'
<1>1. /\ UNCHANGED <<vol, journal, jobs, pool>> /\ mv \in Moves /\ ctl'.step = "idle"
      /\ pool.generation \in Nat
  BY PassContext, PassBecomes, AccountTypes DEF RecordRollbackScan
<1>2. CASE mv' = mv
  <2>1. SameAccounts /\ PassAccountsNext /\ ~At("act2", "RetireRecovery")'
    BY <1>1, <1>2 DEF SameAccounts, PassAccountsNext, At
  <2> QED  BY <1>1, <2>1, BesideAccounts
<1>3. CASE mv' = [mv EXCEPT !.required = pool.generation]
  <2>1. /\ mv'.phase = mv.phase /\ mv'.intent = mv.intent /\ mv'.promote = mv.promote
        /\ mv'.reason = mv.reason /\ mv'.protected = mv.protected
        /\ mv'.required = pool.generation
    BY <1>1, <1>3 DEF Moves
  <2>2. Fenced /\ mv.phase = "Blocked" /\ pool.generation > 0
    BY <1>1 DEF Fenced, At, AInv, PassAccounts, FenceInv
  <2>3. Quiet
    BY <2>2, FencedIsQuiet DEF AInv
  <2>4. HelperInv'
    BY <1>1, <2>1 DEF AInv, HelperInv
  <2>5. TargetInv'
    BY <1>1, <2>1, <2>2 DEF AInv, TargetInv
  <2>6. FenceInv'
    BY <1>1, <2>1, <2>2, <2>3 DEF AInv, FenceInv, Covers, Quiet
  <2>7. EndInv'
    BY <1>1, <2>1, SameEnds DEF AInv, EndInv
  <2> QED  BY <1>1, <2>4, <2>5, <2>6, <2>7 DEF AInv
<1> QED  BY <1>2, <1>3 DEF RecordRollbackScan

(* The phase that a pass records.                                           *)
LEMMA PersistAccounts ==
  ASSUME IInv, AInv, Persist
  PROVE  AInv'
<1>1. /\ UNCHANGED <<vol, journal, jobs, disk, pool>> /\ ctl'.step = "idle"
      /\ ctl.step = "persist"
  BY PassBecomes DEF Persist
<1>2. CASE mv' = mv
  <2>1. SameAccounts /\ PassAccountsNext /\ ~At("act2", "RetireRecovery")'
    BY <1>1, <1>2 DEF SameAccounts, PassAccountsNext, At
  <2> QED  BY <1>1, <2>1, BesideAccounts
<1>3. CASE mv' # mv
  <2>1. /\ mv'.phase = ctl.d.phase /\ mv'.intent = mv.intent /\ mv'.promote = mv.promote
        /\ mv'.reason = mv.reason /\ mv'.protected = mv.protected
        /\ mv'.required = mv.required
    BY <1>3, PersistWrites
  <2>2. /\ ctl.d.phase = "Cancelled" => ~mv.intent
        /\ ctl.d.phase = "Promoting" => mv.promote
        /\ ctl.d.phase = "Succeeded" => SourceClosed
        /\ mv.phase = "Blocked" /\ mv.intent => ctl.d.phase = "Blocked"
    BY <1>1 DEF AInv, PassAccounts, At
  <2>3. mv.phase = "Succeeded" => ctl.d.phase = "Succeeded"
    BY <1>1 DEF IInv, PassInv, Outlook
  <2>4. ~mv.intent => ~mv.promote /\ mv.required = 0
    BY DEF IInv, PlanInv
  <2>5. HelperInv'
    BY <1>1, <2>1, <2>2, <2>4 DEF AInv, HelperInv
  <2>6. TargetInv'
    BY <1>1, <2>1 DEF AInv, TargetInv
  <2>7. mv.required \in Nat
    BY AccountTypes
  <2>8. FenceInv'
    BY <1>1, <2>1, <2>2, <2>4, <2>7 DEF AInv, FenceInv, Fenced, At, Covers, Quiet
  <2>9. EndInv'
    BY <1>1, <2>1, <2>2, <2>3, SameEnds DEF AInv, EndInv
  <2> QED  BY <1>1, <2>5, <2>6, <2>8, <2>9 DEF AInv
<1> QED  BY <1>2, <1>3

(* A cleanup that is opened names nothing at the destination without a      *)
(* fence, and one that is closed has been purged.                           *)
LEMMA DrivenAccounts ==
  ASSUME IInv, TargetInv, NEW r, NEW t, journal' = DrivenJournal(r, t),
         journal.phase = "None" /\ t \in {"incoming", "dst"} => mv.required > 0,
         mv'.required = mv.required, disk' = disk
  PROVE  TargetInv' /\ (SourceClosed => SourceClosed')
<1>1. SourceClosed => SourceClosed'
  BY DEF SourceClosed, CleanupClosed, DrivenJournal, Journal
<1>2. CASE journal' = journal
  BY <1>1, <1>2 DEF TargetInv
<1>3. CASE journal.phase = "None" /\ journal' = Journal("Running", r, t)
  BY <1>1, <1>3 DEF TargetInv, Journal
<1>4. CASE journal = Journal("Purged", r, t) /\ journal' = Journal("Completed", r, t)
  BY <1>1, <1>4 DEF TargetInv, Journal
<1> QED  BY <1>2, <1>3, <1>4 DEF DrivenJournal

(* The committed destination cleans the source.                             *)
LEMMA EnsureCleanupAccounts ==
  ASSUME IInv, AInv, ctl.step = "act", ctl.d.action = "EnsureCleanup", EnsureCleanup,
         UNCHANGED <<cluster, disk, written, faults>>
  PROVE  AInv'
<1>1. /\ UNCHANGED <<vol, mv, jobs, pool>> /\ (Done \/ End)
      /\ journal' = DrivenJournal("MoveSource", "src")
  BY DEF EnsureCleanup
<1>2. TargetInv' /\ (SourceClosed => SourceClosed')
  BY <1>1, DrivenAccounts DEF AInv
<1>3. ctl'.step = "idle" \/ (GoesOn /\ ctl'.step = "persist")
  BY <1>1, PassBecomes DEF GoesOn
<1>4. Absent /\ SameAccounts /\ (Fenced' => Fenced)
  BY <1>1, <1>3 DEF Absent, Quiet, SameAccounts, Fenced, At
<1>5. HelperInv'
  BY <1>1 DEF AInv, HelperInv
<1>6. FenceInv' /\ EndInv'
  BY <1>1, <1>2, <1>4, FenceKept, EndKept DEF AInv
<1>7. PassAccountsNext
  BY <1>1, <1>2, <1>3, PassGoesOn
<1> QED  BY <1>2, <1>5, <1>6, <1>7 DEF AInv, PassAccountsNext

(* When the hold is given back nothing is left beside the owner's copy.     *)
LEMMA RetirementLeavesNothing ==
  ASSUME IInv, AInv, ctl.vol.owner = vol.owner, RetirementSettled
  PROVE  ~Extra
<1>1. CASE vol.owner = "src"
  <2>1. /\ RollbackReadable
        /\ \/ ~ArtifactPresent
           \/ ArtifactPresent /\ CleanupClosed("MoveRollback", RollbackTarget)
    BY <1>1 DEF RetirementSettled, SourceRollbackSettled
  <2>2. Covers(pool.inventory) /\ pool.inventory.generation = pool.generation
    BY <2>1 DEF AInv, FenceInv, Fenced, RollbackReadable, InventoryFresh
  <2>3. /\ disk.incoming # 0 => pool.inventory.incoming
        /\ disk.dst # 0 => pool.inventory.serving
    BY <2>2 DEF Covers
  <2>4. CASE ~ArtifactPresent
    BY <1>1, <2>3, <2>4, ExtraIs DEF ArtifactPresent
  <2>5. CASE CleanupClosed("MoveRollback", RollbackTarget)
    <3>1. disk[RollbackTarget] = 0
      BY <2>5 DEF AInv, TargetInv, CleanupClosed, Journal
    <3>2. ~(pool.inventory.incoming /\ pool.inventory.serving)
      BY <2>1 DEF RollbackReadable
    <3>3. CASE pool.inventory.incoming
      BY <1>1, <2>3, <3>1, <3>2, <3>3, ExtraIs DEF RollbackTarget
    <3>4. CASE ~pool.inventory.incoming
      BY <1>1, <2>3, <3>1, <3>4, ExtraIs DEF RollbackTarget
    <3> QED  BY <3>3, <3>4
  <2> QED  BY <2>1, <2>4, <2>5
<1>2. CASE vol.owner = "dst"
  <2>1. CleanupClosed("MoveSource", "src")
    BY <1>2 DEF RetirementSettled
  <2>2. disk["src"] = 0
    BY <2>1 DEF AInv, TargetInv, CleanupClosed, Journal
  <2>3. disk.incoming = 0
    BY <1>2 DEF AInv, HelperInv
  <2> QED  BY <1>2, <2>2, <2>3, ExtraIs
<1> QED  BY <1>1, <1>2, AccountTypes

(* settleRecoveryArtifacts: the fence is opened before anything is read     *)
(* behind it, and the hold is given back on what was read.                  *)
LEMMA RetireRecoveryAccounts ==
  ASSUME IInv, AInv, ctl.step = "act", ctl.d.action = "RetireRecovery", RetireRecovery,
         UNCHANGED <<cluster, disk, written, faults>>
  PROVE  AInv'
<1> DEFINE settled == mv.reason = "RecoverySettled"
           fenceless == (ctl.vol.owner = "src" \/ mv.settle) /\ mv.required = 0
           blocked == ctl.vol.owner = "src" => ctl.vol.phase = "Blocked" /\ ctl.vol.locked
           opens == ~settled /\ blocked /\ fenceless
           drives == ~settled /\ blocked /\ ~fenceless
<1>1. /\ pool' = IF opens THEN [pool EXCEPT !.generation = @ + 1] ELSE pool
      /\ journal' = IF drives THEN RetirementJournal ELSE journal
      /\ mv' = IF drives /\ RetirementSettled /\ Writable
               THEN [mv EXCEPT !.approved = FALSE, !.reason = "RecoverySettled"]
               ELSE mv
      /\ IF settled /\ ~mv.approved THEN Done
         ELSE IF opens THEN Continue(ctl.vol) ELSE End
      /\ UNCHANGED <<vol, pods, placement, jobs>>
  BY DEF RetireRecovery
<1>2. /\ mv.recovery = "Retiring" /\ mv.intent /\ ctl.vol.owner = vol.owner
      /\ mv.phase = "Blocked" /\ mv \in Moves
  BY SeenMatches, PassContext, ZenonT(30) DEF IInv, PassInv, Grounds, AInv, PassAccounts
<1>3. Quiet
  BY <1>2 DEF IInv, PhaseInv
<1>4. CASE pool' = pool /\ journal' = journal /\ mv' = mv /\ (Done \/ End)
  <2>1. ctl'.step = "idle" \/ (GoesOn /\ ctl'.step = "persist")
    BY <1>4, PassBecomes DEF GoesOn
  <2>2. SameAccounts /\ ~At("act2", "RetireRecovery")' /\ (SourceClosed => SourceClosed')
    BY <1>4, <2>1 DEF SameAccounts, At, SourceClosed, CleanupClosed
  <2>3. PassAccountsNext
    BY <1>4, <2>1, <2>2, PassGoesOn
  <2> QED  BY <1>1, <1>4, <2>2, <2>3, BesideAccounts
<1>5. CASE opens /\ ~(settled /\ ~mv.approved)
  <2>1. /\ Continue(ctl.vol) /\ journal' = journal /\ mv' = mv
        /\ pool' = [pool EXCEPT !.generation = @ + 1] /\ mv.required = 0
    BY <1>1, <1>5
  <2>2. GoesOn
    BY <2>1, PassBecomes DEF GoesOn
  <2>3. Absent /\ (SourceClosed => SourceClosed') /\ SameAccounts
    BY <1>1, <2>1, Zenon DEF Absent, Quiet, SourceClosed, CleanupClosed, SameAccounts
  <2>4. HelperInv'
    BY <1>1, <2>1 DEF AInv, HelperInv
  <2>5. /\ pool \in [generation : Nat, inventory : Inventories, scan : Inventories]
        /\ pool.generation \in Nat /\ pool.inventory.generation \in Nat
        /\ pool.scan.generation \in Nat /\ FenceInv
    BY AccountTypes DEF IInv, TypeOK, AInv
  <2>6. /\ pool'.generation = pool.generation + 1 /\ pool'.inventory = pool.inventory
        /\ pool'.scan = pool.scan
    BY <2>1, <2>5
  <2>7. /\ pool'.generation >= 1
        /\ pool'.inventory.generation <= pool'.generation
        /\ pool'.scan.generation <= pool'.generation
        /\ pool'.inventory.generation # pool'.generation
        /\ pool'.scan.generation # pool'.generation
    BY <2>5, <2>6 DEF FenceInv
  <2>8. FenceInv'
    BY <2>1, <2>7 DEF FenceInv, Covers
  <2>9. TargetInv' /\ EndInv'
    BY <1>1, <2>1, <2>3, TargetKept, EndKept DEF AInv
  <2>10. PassAccountsNext
    BY <2>1, <2>2, <2>3, PassGoesOn
  <2> QED  BY <2>4, <2>8, <2>9, <2>10 DEF AInv, PassAccountsNext
<1>6. CASE drives
  <2>1. /\ End /\ pool' = pool /\ journal' = RetirementJournal
        /\ \/ mv' = mv
           \/ /\ RetirementSettled
              /\ mv' = [mv EXCEPT !.approved = FALSE, !.reason = "RecoverySettled"]
    BY <1>1, <1>6
  <2> HIDE DEF settled, fenceless, blocked, opens, drives
  <2>2. /\ mv'.phase = mv.phase /\ mv'.intent = mv.intent /\ mv'.promote = mv.promote
        /\ mv'.protected = mv.protected /\ mv'.required = mv.required
        /\ mv'.reason = mv.reason \/ (RetirementSettled /\ mv'.reason = "RecoverySettled")
    BY <1>2, <2>1, ZenonT(30) DEF Moves
  <2>3. ctl'.step = "idle"
    BY <2>1, PassBecomes
  <2>4. TargetInv' /\ (SourceClosed => SourceClosed')
    <3>1. CASE journal' = journal
      BY <2>2, <3>1 DEF AInv, TargetInv, SourceClosed, CleanupClosed
    <3>2. CASE RollbackReadable /\ journal' = DrivenJournal("MoveRollback", RollbackTarget)
      <4>1. mv.required > 0
        BY <3>2 DEF RollbackReadable, InventoryFresh
      <4> QED  BY <2>2, <3>2, <4>1, DrivenAccounts DEF AInv
    <3>3. CASE /\ journal.reason = "MoveRollback"
               /\ journal' = DrivenJournal("MoveRollback", journal.target)
      <4>1. journal.phase # "None"
        BY <3>3 DEF IInv, JournalInv
      <4> QED  BY <2>2, <3>3, <4>1, DrivenAccounts DEF AInv
    <3>4. CASE journal' = DrivenJournal("MoveSource", "src")
      BY <2>2, <3>4, DrivenAccounts DEF AInv
    <3>5. vol.owner \in {"src", "dst"}
      BY AccountTypes
    <3> QED  BY <1>2, <2>1, <3>1, <3>2, <3>3, <3>4, <3>5 DEF RetirementJournal
  <2>5. Absent /\ (Fenced' => Fenced)
    BY <1>1, <2>2, <2>3 DEF Absent, Quiet, Fenced, At
  <2>6. HelperInv'
    BY <1>1, <2>2 DEF AInv, HelperInv
  <2>7. FenceInv'
    BY <2>1, <2>2, <2>5, FenceKept DEF AInv
  <2>8. RetirementSettled => ~Extra
    BY <1>2, RetirementLeavesNothing
  <2>9. (Quiet => Quiet') /\ (~Extra => ~Extra')
    BY <1>1, Zenon DEF Quiet, Extra
  <2>10. EndInv'
    BY <1>2, <1>3, <2>2, <2>4, <2>8, <2>9 DEF AInv, EndInv
  <2> QED  BY <2>3, <2>4, <2>6, <2>7, <2>10 DEF AInv
<1> QED  BY <1>1, <1>4, <1>5, <1>6

(* A helper Job is created by a Move that is not blocked; where a promotion *)
(* is recorded, its copy Job is there and complete.                         *)
LEMMA EnsureJobAccounts ==
  ASSUME IInv, AInv, ctl.step = "act2", NEW j \in {"copy", "promote"}, EnsureJob(j),
         ctl.d.action = IF j = "copy" THEN "EnsureCopy" ELSE "EnsurePromotion",
         UNCHANGED <<cluster, disk, written, faults>>
  PROVE  AInv'
<1>1. /\ UNCHANGED <<vol, mv, journal, pool>> /\ Done
      /\ \/ jobs' = jobs
         \/ jobs[j].state = "none" /\ jobs' = [jobs EXCEPT ![j] = NewJob]
  BY DEF EnsureJob
<1>2. ctl.d.action \in {"EnsureCopy", "EnsurePromotion"}
  OBVIOUS
<1>3. /\ mv.phase # "Blocked"
      /\ ctl.d.action = "EnsurePromotion" => mv.promote
  BY <1>2 DEF AInv, PassAccounts
<1>4. mv.required = 0
  BY <1>3, AccountTypes DEF AInv, FenceInv
<1>5. jobs \in JobSets /\ NewJob.pc = "idle"
  BY HelperContext, JobEffects
<1>6. /\ mv.promote => jobs'.copy = jobs.copy
      /\ jobs'.promote.pc = "written" => jobs.promote.pc = "written"
  <2>1. CASE jobs' = jobs
    BY <2>1
  <2>2. CASE j = "copy" /\ jobs.copy.state = "none" /\ jobs' = [jobs EXCEPT !.copy = NewJob]
    <3>1. ~mv.promote
      BY <1>3, <2>2 DEF AInv, HelperInv
    <3>2. jobs'.promote = jobs.promote
      BY <1>5, <2>2 DEF JobSets
    <3> QED  BY <3>1, <3>2
  <2>3. CASE j = "promote" /\ jobs' = [jobs EXCEPT !.promote = NewJob]
    <3>1. jobs'.copy = jobs.copy /\ jobs'.promote = NewJob
      BY <1>5, <2>3 DEF JobSets
    <3> QED  BY <1>5, <3>1
  <2> QED  BY <1>1, <2>1, <2>2, <2>3
<1>7. GoesOn /\ ctl'.step = "persist"
  BY <1>1, <1>2, <1>3, PassBecomes DEF GoesOn
<1>8. HelperInv'
  BY <1>1, <1>6, ZenonT(30) DEF AInv, HelperInv
<1>9. TargetInv'
  BY <1>1 DEF AInv, TargetInv
<1>10. FenceInv'
  BY <1>1, <1>4, <1>7 DEF AInv, FenceInv, Fenced, At
<1>11. SourceClosed => SourceClosed'
  BY <1>1 DEF SourceClosed, CleanupClosed
<1>12. EndInv'
  BY <1>1, <1>3, <1>11 DEF AInv, EndInv
<1>13. PassAccountsNext
  BY <1>1, <1>7, <1>11, PassGoesOn
<1> QED  BY <1>8, <1>9, <1>10, <1>12, <1>13 DEF AInv, PassAccountsNext

(* Recovery deletes the helpers of a blocked Move.                          *)
LEMMA QuiesceAccounts ==
  ASSUME IInv, AInv, ctl.step = "act", ctl.d.action = "QuiesceRecovery", QuiesceRecovery,
         UNCHANGED <<cluster, disk, written, faults>>
  PROVE  AInv'
<1>1. /\ UNCHANGED <<vol, mv, journal, pool>> /\ (Done \/ End)
      /\ jobs' = [jobs EXCEPT !.copy = DeletedJob(@), !.promote = DeletedJob(@)]
  BY DEF QuiesceRecovery
<1>2. mv.phase = "Blocked"
  BY DEF AInv, PassAccounts
<1>3. jobs \in JobSets /\ jobs.copy \in JobRecords /\ jobs.promote \in JobRecords
  BY HelperContext
<1>4. jobs'.copy = DeletedJob(jobs.copy) /\ jobs'.promote = DeletedJob(jobs.promote)
  <2> HIDE DEF JobRecords, DeletedJob
  <2> QED  BY <1>1, <1>3 DEF JobSets
<1>5. /\ jobs'.copy.pc = jobs.copy.pc /\ jobs'.promote.pc = jobs.promote.pc
      /\ jobs'.copy.state \in {jobs.copy.state, "deleting"}
      /\ Quiet => Quiet'
  BY <1>3, <1>4, JobEffects DEF Quiet, NoJob
<1>6. ctl'.step = "idle" \/ (GoesOn /\ ctl'.step = "persist")
  BY <1>1, PassBecomes DEF GoesOn
<1>7. /\ Absent /\ SameAccounts /\ (Fenced' => Fenced)
      /\ SourceClosed => SourceClosed'
  BY <1>1, <1>5, <1>6 DEF Absent, SameAccounts, Fenced, At, SourceClosed, CleanupClosed
<1>8. HelperInv'
  BY <1>1, <1>2, <1>5 DEF AInv, HelperInv
<1>9. TargetInv' /\ FenceInv' /\ EndInv'
  BY <1>1, <1>7, TargetKept, FenceKept, EndKept DEF AInv
<1>10. PassAccountsNext
  BY <1>1, <1>6, <1>7, PassGoesOn
<1> QED  BY <1>8, <1>9, <1>10 DEF AInv, PassAccountsNext

(* The owner changes while the Move is not blocked, to a promoted copy; the *)
(* source becomes the copy beside it.                                       *)
LEMMA CommitOwnerAccounts ==
  ASSUME IInv, AInv, ctl.step = "act", ctl.d.action = "CommitOwner", CommitOwner,
         UNCHANGED <<cluster, disk, written, faults>>
  PROVE  AInv'
<1>1. /\ UNCHANGED <<mv, journal, jobs, pool>> /\ (Done \/ End)
      /\ vol' = vol \/ vol' = Written("Ready", "dst", TRUE)
  BY ZenonT(30) DEF CommitOwner
<1>2. mv.phase # "Blocked"
  BY DEF AInv, PassAccounts
<1>3. disk.promoted
  BY Zenon DEF IInv, PassInv, Grounds, AInv, HelperInv
<1>4. ctl'.step = "idle" \/ (GoesOn /\ ctl'.step = "persist")
  BY <1>1, PassBecomes DEF GoesOn
<1>5. /\ Absent /\ (Fenced' => Fenced)
      /\ SourceClosed => SourceClosed'
  BY <1>1, <1>4 DEF Absent, Quiet, Fenced, At, SourceClosed, CleanupClosed
<1>6. HelperInv'
  BY <1>1, <1>3 DEF AInv, HelperInv
<1>7. TargetInv' /\ FenceInv'
  BY <1>1, <1>5, TargetKept, FenceKept DEF AInv
<1>8. EndInv'
  BY <1>1, <1>2, <1>5 DEF AInv, EndInv
<1>9. PassAccountsNext
  BY <1>1, <1>4, <1>5, PassGoesOn
<1> QED  BY <1>6, <1>7, <1>8, <1>9 DEF AInv, PassAccountsNext

(* A pass that begins: what its decision rests on.                          *)
LEMMA LookAccounts ==
  ASSUME IInv, AInv, Look
  PROVE  AInv'
<1>1. PICK t : Observe(t)
  BY DEF Look, ObserveCalm, ObserveTroubled
<1>2. PICK q \in MovePhases, s \in RecoveryPhases, a \in Effects \cup PersistOnly,
           v \in {vol, NoVolume} : \E f : Begins(q, s, a, v, f)
  BY <1>1, LookEffect
<1>3. PICK f : Begins(q, s, a, v, f)
  BY <1>2
<1> DEFINE sight == [ok |-> TRUE, read |-> v # NoVolume, facts |-> f]
           o == LifecycleFacts(sight)
<1>4. UNCHANGED <<vol, mv, journal, jobs, disk, pool>>
  BY DEF Look
<1>5. /\ o.DestinationIntentRecorded = ~NoDestinationIntent
      /\ o.CapacityApproved = mv.approved
      /\ o.CopyComplete = f.CopyComplete
  <2>1. sight.facts = f /\ DOMAIN f = FactNames
    BY <1>3, ZenonT(30) DEF Begins, Witnessed
  <2> HIDE DEF sight
  <2> QED  BY <2>1, FactsOf, ZenonT(40)
<1>6. Sound(mv.phase, mv.recovery, o, q, s, a)
  BY <1>3, ZenonT(30) DEF Begins
<1>7. BeforeExecutionApproval(o) <=> ~mv.intent
  BY <1>5, ZenonT(40) DEF BeforeExecutionApproval, NoDestinationIntent, IInv, PlanInv
<1> HIDE DEF sight, o
<1>8. /\ ctl'.step = IF a \in PersistOnly THEN "persist" ELSE "act"
      /\ ctl'.d.phase = q /\ ctl'.d.action = a
  BY <1>3, ZenonT(30) DEF Begins, Decision
<1>9. /\ PhaseReason(mv.phase, o, q, a)
      /\ ActionReason(mv.phase, mv.recovery, o, q, s, a)
      /\ RecoveryActionReason(mv.phase, mv.recovery, o, s, a)
  BY <1>6 DEF Sound
<1>10. /\ q = "Cancelled" => ~mv.intent
       /\ q = "Promoting" => mv.promote \/ a = "EnsurePromotion"
       /\ q = "Succeeded" => SourceClosed \/ a = "MarkSucceeded"
       /\ mv.phase = "Blocked" /\ mv.intent => q = "Blocked"
  BY <1>7, <1>9, ZenonT(30) DEF PhaseReason, AInv, HelperInv, EndInv
<1>11. f.CopyComplete => jobs.copy.state = "complete"
  BY <1>3, ZenonT(30) DEF Begins, Witnessed
<1>12. /\ a = "EnsurePromotion" => mv.promote \/ jobs.copy.state = "complete"
       /\ a \in {"EnsureCopy", "EnsurePromotion", "CommitOwner"} => mv.phase # "Blocked"
       /\ a \in {"QuiesceRecovery", "RetireRecovery"} => mv.phase = "Blocked"
  BY <1>5, <1>9, <1>11, ZenonT(30) DEF ActionReason, RecoveryActionReason, AInv, HelperInv
<1>13. a \in {"EnsurePromotion", "MarkSucceeded"} => ctl'.step = "act"
  BY <1>8 DEF PersistOnly
<1>14. SourceClosed => SourceClosed'
  BY <1>4 DEF SourceClosed, CleanupClosed
<1>15. PassAccounts(ctl.d, ctl.d.action)'
  BY <1>4, <1>8, <1>10, <1>12, <1>13, <1>14 DEF PassAccounts, At
<1>16. SameAccounts /\ ~At("act2", "RetireRecovery")'
  BY <1>4, <1>8 DEF SameAccounts, At
<1> QED  BY <1>4, <1>15, <1>16, BesideAccounts DEF PassAccountsNext

(* The first effect of a pass, action by action.                            *)
LEMMA EffectAccounts ==
  ASSUME IInv, AInv, ctl.step = "act", Effect(ctl.d.action),
         UNCHANGED <<cluster, disk, written, faults>>
  PROVE  AInv'
<1>1. ctl.d.action \in Effects
  BY DEF IInv, PassInv
<1>2. CASE ctl.d.action = "ProtectMove"
  <2>1. ProtectMove
    BY <1>2 DEF Effect
  <2> QED  BY <1>2, <2>1, ProtectionAccounts
<1>3. CASE ctl.d.action = "FinalizeHistory"
  <2>1. FinalizeHistory
    BY <1>3 DEF Effect
  <2> QED  BY <1>3, <2>1, ProtectionAccounts
<1>4. CASE ctl.d.action = "ReservePreparation"
  <2>1. ReservePreparation
    BY <1>4 DEF Effect
  <2>2. End /\ UNCHANGED <<vol, journal, jobs, pool>>
    BY <2>1 DEF ReservePreparation
  <2> QED  BY <1>4, <2>1, <2>2, CapacityAccounts
<1>5. CASE ctl.d.action = "EnsureCapacity"
  <2>1. EnsureCapacity
    BY <1>5 DEF Effect
  <2>2. End /\ UNCHANGED <<vol, journal, jobs, pool>>
    BY <2>1 DEF EnsureCapacity
  <2> QED  BY <1>5, <2>1, <2>2, CapacityAccounts
<1>6. CASE ctl.d.action = "StartDisruption"
  <2>1. StartDisruption
    BY <1>6 DEF Effect
  <2> QED  BY <1>6, <2>1, StartDisruptionAccounts
<1>7. CASE ctl.d.action = "EnsurePromotion"
  <2>1. EnsurePromotion
    BY <1>7 DEF Effect
  <2> QED  BY <1>7, <2>1, EnsurePromotionAccounts
<1>8. CASE ctl.d.action = "CommitOwner"
  <2>1. CommitOwner
    BY <1>8 DEF Effect
  <2> QED  BY <1>8, <2>1, CommitOwnerAccounts
<1>9. CASE ctl.d.action = "EnsureCleanup"
  <2>1. EnsureCleanup
    BY <1>9 DEF Effect
  <2> QED  BY <1>9, <2>1, EnsureCleanupAccounts
<1>10. CASE ctl.d.action = "QuiesceRecovery"
  <2>1. QuiesceRecovery
    BY <1>10 DEF Effect
  <2> QED  BY <1>10, <2>1, QuiesceAccounts
<1>11. CASE ctl.d.action = "RetireRecovery"
  <2>1. RetireRecovery
    BY <1>11 DEF Effect
  <2> QED  BY <1>11, <2>1, RetireRecoveryAccounts
<1>12. CASE ctl.d.action \in {"ClaimSource", "RestoreSource", "ReleaseSource"}
  <2>1. BesideEffect
    BY <1>12, ZenonT(30) DEF Effect, BesideEffect
  <2> QED  BY <2>1, BesideEffectAccounts
<1>13. CASE ctl.d.action \in {"EnsurePlacement", "EnsureCopy",
                              "DeletePlacement", "ReleasePlacement"}
  <2>1. BesideEffect
    BY <1>13, ZenonT(30) DEF Effect, BesideEffect
  <2> QED  BY <2>1, BesideEffectAccounts
<1>14. CASE ctl.d.action \in {"ConfirmCleanup", "MarkSucceeded",
                              "MarkBlocked", "RequestSettlement"}
  <2>1. BesideEffect
    BY <1>14, ZenonT(30) DEF Effect, BesideEffect
  <2> QED  BY <2>1, BesideEffectAccounts
<1>15. CASE ctl.d.action \in {"VerifyRecovery", "ResumeRecovery",
                              "CompleteRecovery"}
  <2>1. BesideEffect
    BY <1>15, ZenonT(30) DEF Effect, BesideEffect
  <2> QED  BY <2>1, BesideEffectAccounts
<1> QED
  BY <1>1, <1>2, <1>3, <1>4, <1>5, <1>6, <1>7, <1>8, <1>9, <1>10, <1>11, <1>12, <1>13,
     <1>14, <1>15
  DEF Effects

(* The second.                                                              *)
LEMMA SecondEffectAccounts ==
  ASSUME IInv, AInv, ctl.step = "act2", SecondEffect(ctl.d.action),
         UNCHANGED <<cluster, disk, written, faults>>
  PROVE  AInv'
<1>1. ctl.d.action \in SecondEffects
  BY DEF IInv, PassInv
<1>2. CASE ctl.d.action = "StartDisruption"
  <2>1. BesideEffect
    BY <1>2 DEF SecondEffect, BesideEffect
  <2> QED  BY <2>1, BesideEffectAccounts
<1>3. CASE ctl.d.action = "EnsureCopy"
  <2>1. EnsureJob("copy")
    BY <1>3 DEF SecondEffect
  <2> QED  BY <1>3, <2>1, EnsureJobAccounts
<1>4. CASE ctl.d.action = "EnsurePromotion"
  <2>1. EnsureJob("promote")
    BY <1>4 DEF SecondEffect
  <2> QED  BY <1>4, <2>1, EnsureJobAccounts
<1>5. CASE ctl.d.action = "RetireRecovery"
  <2>1. RecordRollbackScan
    BY <1>5 DEF SecondEffect
  <2> QED  BY <1>5, <2>1, RecordRollbackScanAccounts
<1> QED  BY <1>1, <1>2, <1>3, <1>4, <1>5 DEF SecondEffects

(* Every step of the controller keeps the accounts.                         *)
LEMMA ControllerAccounts ==
  ASSUME IInv, AInv, Controller
  PROVE  AInv'
<1>1. CASE Look
  BY <1>1, LookAccounts
<1>2. CASE Act
  <2>1. UNCHANGED <<cluster, disk, written, faults>>
    BY <1>2 DEF Act
  <2>2. CASE ctl.step = "act" /\ Effect(ctl.d.action)
    BY <2>1, <2>2, EffectAccounts
  <2>3. CASE ctl.step = "act2" /\ SecondEffect(ctl.d.action)
    BY <2>1, <2>3, SecondEffectAccounts
  <2> QED  BY <1>2, <2>2, <2>3 DEF Act
<1>3. CASE CapacityRefused
  BY <1>3, CapacityAccounts DEF CapacityRefused
<1>4. CASE Persist
  BY <1>4, PersistAccounts
<1>5. CASE Crash
  <2>1. UNCHANGED <<vol, mv, journal, jobs, disk, pool>> /\ ctl'.step = "idle"
    BY <1>5, PassBecomes DEF Crash
  <2>2. SameAccounts /\ PassAccountsNext /\ ~At("act2", "RetireRecovery")'
    BY <2>1 DEF SameAccounts, PassAccountsNext, At
  <2> QED  BY <2>1, <2>2, BesideAccounts
<1> QED  BY <1>1, <1>2, <1>3, <1>4, <1>5 DEF Controller

-----------------------------------------------------------------------------
(* The inductive argument.                                                  *)

(* A Move begins with one copy and nothing decided.                         *)
LEMMA InitAccounts == Init => AInv
<1> SUFFICES ASSUME Init PROVE AInv
  OBVIOUS
<1> USE DEF Init
<1>1. HelperInv /\ TargetInv
  BY DEF HelperInv, TargetInv, Volume
<1>2. FenceInv
  BY DEF FenceInv, Fenced, At, Idle, NoInventory
<1>3. EndInv
  BY DEF EndInv
<1>4. ctl.step = "idle"
  BY DEF Idle
<1> QED  BY <1>1, <1>2, <1>3, <1>4 DEF AInv

(* Every step of every actor keeps the accounts.                            *)
LEMMA NextAccounts ==
  ASSUME IInv, IInv', AInv, [Next]_vars, "expire" \notin Inputs
  PROVE  AInv'
<1>1. CASE Controller
  BY <1>1, ControllerAccounts
<1>2. CASE \E j \in JobKind : Helper(j) \/ HelperFault(j)
  BY <1>2, HelperAccounts
<1>3. CASE Executor \/ CleanupReview
  BY <1>3, ExecutorAccounts
<1>4. CASE Scanner
  BY <1>4, ScannerAccounts
<1>5. CASE \E c \in Consumers : Write(c)
  BY <1>5, WriteAccounts
<1>6. CASE \/ Workload \/ Scheduler \/ Preempt \/ Operator
           \/ (\E c \in Consumers : PublishInterrupted(c) \/ RollPod(c)) \/ UNCHANGED vars
  BY <1>6, WorldAccounts
<1> QED  BY <1>1, <1>2, <1>3, <1>4, <1>5, <1>6, Zenon DEF Next, Environment

(* The invariants together account for every copy.  What a Move that        *)
(* succeeded leaves is the owner's copy alone; every other Move with a disk *)
(* plan that is not settled still has its approval and its finalizer.       *)
LEMMA AccountsSuffice ==
  ASSUME IInv, AInv
  PROVE  EveryCopyIsAccounted
<1> SUFFICES ASSUME Extra PROVE mv.exists /\ mv.approved /\ ~MoveCleanupSettled
  BY Zenon DEF EveryCopyIsAccounted, Extra
<1>1. vol.owner \in {"src", "dst"} /\ mv.hold \in BOOLEAN
  BY PassContext
<1>2. mv.intent
  <2>1. CASE vol.owner = "dst"
    BY <2>1 DEF IInv, VolumeInv
  <2>2. CASE vol.owner = "src"
    BY <2>2, ExtraIs DEF IInv, JobInv
  <2> QED  BY <1>1, <2>1, <2>2
<1>3. mv.reason # "RecoverySettled"
  BY DEF AInv, EndInv
<1>4. mv.phase # "Succeeded"
  <2> SUFFICES ASSUME mv.phase = "Succeeded" PROVE FALSE
    OBVIOUS
  <2>1. vol.owner = "dst"
    BY DEF IInv, PhaseInv, Committed
  <2>2. disk.incoming = 0
    BY <2>1 DEF AInv, HelperInv
  <2>3. disk["src"] = 0
    BY DEF AInv, EndInv, TargetInv, SourceClosed, CleanupClosed, Journal
  <2> QED  BY <2>1, <2>2, <2>3, ExtraIs
<1>5. mv.protected /\ mv.phase # "Cancelled"
  BY <1>2, <1>3, <1>4 DEF AInv, EndInv
<1>6. mv.exists /\ mv.approved
  BY <1>2, <1>3, <1>5, ZenonT(30) DEF IInv, VolumeInv, PlanInv
<1> QED  BY <1>3, <1>4, <1>5, <1>6 DEF MoveCleanupSettled

(* Capacity of both Pools stays reserved for every copy beside the owner's, *)
(* for any number of faults and writes and any choice of inputs without the *)
(* expiry of finished Jobs: approveMoveCapacity counts the Move from the    *)
(* first byte at the destination to the last purge (IsMoveCleanupSettled).  *)
THEOREM CopiesAccounted ==
  ASSUME "expire" \notin Inputs
  PROVE  Spec => []EveryCopyIsAccounted
<1>1. Init => AInv
  BY InitAccounts
<1>2. IInv /\ IInv' /\ AInv /\ [Next]_vars => AInv'
  BY NextAccounts
<1>3. IInv /\ AInv => EveryCopyIsAccounted
  BY AccountsSuffice
<1> QED  BY <1>1, <1>2, <1>3, Inductive, PTL DEF Spec
=============================================================================
