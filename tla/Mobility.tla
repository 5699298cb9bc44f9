------------------------------ MODULE Mobility ------------------------------
(***************************************************************************)
(* One planned cold move of one Volume from node "src" to node "dst".      *)
(*                                                                         *)
(* The controller runs passes.  A pass observes the cluster, lets MoveFSM  *)
(* decide, performs the effect of the decision against whatever the        *)
(* cluster has become meanwhile, and last compares-and-sets the new phase  *)
(* into the Move, which fails when anybody wrote the Move since it was     *)
(* read.  Beside it run the helper Jobs on the destination, the cleanup    *)
(* executor (module Cleanup describes it in full; here it is a journal     *)
(* with one purge), the inventory scanner of the destination Pool, the     *)
(* workload with its kubelets, and the operator.                           *)
(*                                                                         *)
(* The controller is one replica and each Volume one serial lane, so there *)
(* is one pass at a time; it may crash between any two of its writes.      *)
(***************************************************************************)
EXTENDS MoveFSM, Integers

CONSTANTS
    Inputs,      \* what operator and environment may do in this instance
    MaxFaults,   \* crashes, failed observations and other bad luck
    MaxWrites    \* writes of the workload

ASSUME MobilityAssumption ==
    /\ Inputs \subseteq {"uncordon", "recover", "delete", "retire", "sick",
                         "down", "optout", "ambiguous", "deferred", "space",
                         "preempt", "expire", "fail", "rollout"}
    /\ MaxFaults \in Nat /\ MaxWrites \in Nat

Nodes == {"src", "dst"}
Consumers == {"old", "new"}   \* the Pod being moved and its replacement
Troubles == {"sick", "down", "optout", "ambiguous", "deferred"}

VARIABLES
    vol,        \* ShiftPVVolume status
    mv,         \* ShiftPVMove metadata, spec.recovery and status
    journal,    \* status.cleanup of the Move
    ctl,        \* the pass of the controller
    cluster,    \* claim binding and cordon of the source node
    pods,       \* consumer Pods with their mounts
    placement,  \* placement reservation Pod
    jobs,       \* helper Jobs and the progress of their Pods
    disk,       \* copies (0 is absent, -1 incomplete, else the last write held),
                \* the record of the incoming copy and the two receipts
    written,    \* number of writes the workload has made
    pool,       \* destination Pool: generation, published inventory, scan
    faults

vars == <<vol, mv, journal, ctl, cluster, pods, placement, jobs, disk, written,
          pool, faults>>

Volume(phase, owner, locked, published) ==
    [phase |-> phase, owner |-> owner, locked |-> locked, published |-> published]
NoVolume == Volume("none", "none", FALSE, {})

Idle == [step |-> "idle", d |-> Refused, vol |-> NoVolume, held |-> FALSE,
         live |-> FALSE, committed |-> FALSE, fresh |-> TRUE]
NoInventory == [generation |-> 0, incoming |-> FALSE, serving |-> FALSE,
                published |-> FALSE]
NoJob == [state |-> "none", pc |-> "idle"]
NewJob == [state |-> "active", pc |-> "idle"]

Init ==
    /\ vol = Volume("Ready", "src", FALSE, {"src"})
    /\ mv = [phase |-> "Pending", recovery |-> "none", recoveryOwner |-> "none",
             plan |-> FALSE, hold |-> FALSE, approved |-> FALSE, intent |-> FALSE,
             promote |-> FALSE, settle |-> FALSE, required |-> 0, reason |-> "none",
             requested |-> FALSE, protected |-> FALSE, deleting |-> FALSE,
             exists |-> TRUE]
    /\ journal = [phase |-> "None", reason |-> "none", target |-> "none"]
    /\ ctl = Idle
    /\ cluster = [claim |-> "bound", cordoned |-> TRUE]
    /\ pods = [old |-> [state |-> "bound", node |-> "src", mount |-> "yes"],
               new |-> [state |-> "none", node |-> "none", mount |-> "no"]]
    /\ placement = [state |-> "none", exact |-> FALSE]
    /\ jobs = [copy |-> NoJob, promote |-> NoJob, verify |-> NoJob, purge |-> "idle"]
    /\ disk = [src |-> 1, incoming |-> 0, dst |-> 0, meta |-> FALSE, receipt |-> FALSE,
               promoted |-> FALSE]
    /\ written = 1
    /\ pool = [generation |-> 1, inventory |-> [NoInventory EXCEPT !.generation = 1],
               scan |-> NoInventory]
    /\ faults = 0

-----------------------------------------------------------------------------
(* Reading the persisted state.                                             *)

NoDestinationIntent == ~mv.intent /\ ~mv.promote
Unapproved == ~mv.approved /\ NoDestinationIntent
RecoveryRequested == mv.requested \/ mv.settle

CancellablePreparation ==
    /\ Unapproved /\ journal.phase = "None" /\ mv.required = 0
    /\ mv.recovery = "none" /\ mv.recoveryOwner = "none"

(* Mutant: the claim is watched only until execution is approved.           *)
NeedsPreparationLifetime ==
    /\ ~mv.settle /\ mv.recovery # "Recovered"
    /\ mv.phase \notin {"Succeeded", "Cancelled", "Canceling"}
    /\ Unapproved /\ mv.plan /\ mv.hold

NeedsWorkloadLifetime ==
    /\ ~mv.settle /\ mv.recovery # "Recovered"
    /\ mv.phase \notin {"Succeeded", "Cancelled", "Canceling"}
    /\ ~Unapproved \/ (mv.plan /\ mv.hold)

NeedsRecoveryObservation ==
    /\ mv.phase = "Blocked" /\ RecoveryRequested /\ mv.recovery # "Recovered"
    /\ ~Unapproved \/ mv.recovery # "none"

(* hasCommittedDestinationAuthority; the lock may be gone once completing.  *)
CommittedDestination(v, released) ==
    mv.intent /\ v.phase = "Ready" /\ v.owner = "dst" /\ (v.locked \/ released)

MoveCleanupSettled ==
    /\ ~mv.hold
    /\ \/ mv.phase = "Cancelled" /\ Unapproved
       \/ mv.phase = "Succeeded" /\ journal.phase = "Completed"
       \/ /\ mv.phase = "Blocked" /\ mv.recovery = "Recovered"
          /\ ~mv.approved /\ mv.reason = "RecoverySettled"

(* Evidence a settlement must have before it may release the Volume.        *)
SettlementArtifactsClosed ==
    /\ mv.settle /\ mv.phase = "Blocked" /\ mv.recovery = "Completing"
    /\ ~mv.approved /\ mv.reason = "RecoverySettled"
    /\ IF mv.recoveryOwner = "dst"
       THEN journal.phase = "Completed" /\ journal.reason = "MoveSource"
       ELSE /\ mv.required > 0
            /\ \/ journal.phase = "None"
               \/ journal.phase = "Completed" /\ journal.reason = "MoveRollback"

(* The exact reservation the hold was granted for is still scheduled.       *)
PreparedPlacementIntact == placement.state = "scheduled" /\ placement.exact
PlacementIdentity == mv.approved \/ ~mv.hold \/ placement.exact

-----------------------------------------------------------------------------
(* Observations.  t is what is wrong while this pass looks: the source node *)
(* or its Pool is unhealthy, the destination is down, the namespace opted   *)
(* out of admission, more Pods than two use the claim, or preflight (the    *)
(* disruption budget) refuses.  FAILED is an observation error.             *)

NoFacts == [f \in {"WorkloadRetired", "SettlementOnly", "ProtectionPresent",
    "SourcePlanRecorded", "SourceClaimed", "PreparationReserved",
    "PreparationChanged", "PreparationUnavailable", "SourceMoving",
    "SourceBlocked", "PlacementAbsent", "DestinationIntentRecorded",
    "RecoveryRequested", "RecoveryOwnerIsDestination", "RecoveryUnlockObserved",
    "PreconditionsValid", "PreflightDeferred", "SourceHealthy",
    "SourceAuthorityInvalid", "ConsumersAmbiguous", "PublishedOnSource",
    "ReplacementExists", "ReplacementHeld", "PlacementExists",
    "DestinationScheduled", "DestinationBlocked", "DestinationUnavailable",
    "CapacityApproved", "CapacityBlocked", "CopyComplete", "CopyFailed",
    "PromotionComplete", "PromotionFailed", "OwnerCommitted",
    "PublishedOnDestination", "CleanupComplete", "CleanupFailed",
    "CompletionReady"} |-> FALSE]

(* An observation: did it succeed, was the Volume read, and the facts.      *)
Saw(o) == [ok |-> TRUE, read |-> TRUE, facts |-> o]
Unread(o) == [ok |-> TRUE, read |-> FALSE, facts |-> o]
FAILED == [ok |-> FALSE, read |-> FALSE, facts |-> NoFacts]

Changed(o, unavailable) ==
    Saw([o EXCEPT !.PreparationChanged = TRUE,
                  !.PreparationUnavailable = @ \/ unavailable])

Retired == cluster.claim = "retired"

(* An original claim that is gone.  Without disk authority the source must  *)
(* still be claimed by this Move.                                           *)
WorkloadRetirement ==
    IF Unapproved /\ ~(CancellablePreparation /\ vol.locked /\ vol.owner = "src")
    THEN FAILED ELSE Saw([NoFacts EXCEPT !.WorkloadRetired = TRUE])

(* observeConsumers finds nobody after an early return.                     *)
Consumer(t) == IF t \in {"optout", "ambiguous"} THEN "none" ELSE pods["old"].state
Replacement(t) == IF t \in {"optout", "ambiguous"} THEN "none" ELSE pods["new"].state

PlacementVerdict(o, t) ==
    IF ~PreparedPlacementIntact THEN Changed(o, FALSE)
    ELSE IF t = "down" THEN Changed(o, TRUE)
    ELSE Saw(o)

PreparationFacts(t) ==
    LET starting == mv.phase = "StartingDisruption"
        preconditions == t \notin {"sick", "down"} /\ ~Retired /\ cluster.cordoned
                         /\ Consumer(t) # "none"
        refused ==
            IF starting
            THEN Consumer(t) = "bound" /\ (Replacement(t) # "none" \/ t = "deferred")
            ELSE Consumer(t) # "none" /\ t # "sick" /\ (t = "deferred" \/ ~preconditions)
    IN [NoFacts EXCEPT
            !.SourceHealthy = t # "sick",
            !.SourceAuthorityInvalid = Retired,
            !.ConsumersAmbiguous = t = "ambiguous",
            !.ReplacementExists = Replacement(t) # "none",
            !.ReplacementHeld = Replacement(t) = "held",
            !.PreconditionsValid = preconditions /\ (starting \/ ~refused),
            !.PreflightDeferred =
                ~Retired /\ (t \in {"optout", "ambiguous"} \/ refused),
            !.PreparationUnavailable = ~Retired /\ starting /\ refused]

ObservePreparationPlan(t) ==
    LET o == PreparationFacts(t)
        starting == mv.phase = "StartingDisruption"
        deferred == ~o.SourceHealthy \/ o.PreflightDeferred
    IN IF starting /\ ~o.SourceHealthy /\ ~o.SourceAuthorityInvalid
       THEN Changed(o, TRUE)
       ELSE IF ~cluster.cordoned THEN Changed(o, FALSE)
       ELSE IF ~mv.plan THEN IF Retired THEN Changed(o, FALSE) ELSE Saw(o)
       ELSE IF Retired THEN Changed(o, FALSE)
       ELSE IF ~starting /\ Consumer(t) # "bound" THEN Changed(o, FALSE)
       ELSE IF ~mv.hold
            THEN Saw([o EXCEPT !.PlacementExists =
                        /\ deferred \/ ~o.PreconditionsValid
                        /\ placement.state # "none"])
       ELSE IF ~vol.locked THEN FAILED
       ELSE IF Replacement(t) \notin {"none", "held"} THEN Changed(o, FALSE)
       ELSE IF \/ deferred
               \/ ~starting /\ Consumer(t) # "none" /\ ~o.PreconditionsValid
            THEN Changed(o, ~o.SourceAuthorityInvalid /\ deferred)
       ELSE PlacementVerdict(o, t)

ObservePreparation(t) ==
    LET starting == mv.phase = "StartingDisruption"
        changed == [NoFacts EXCEPT !.PreparationChanged = TRUE]
    IN IF ~(Unapproved /\ journal.phase = "None" /\ mv.required = 0) THEN FAILED
       ELSE IF mv.deleting /\ ~starting THEN Unread(changed)
       ELSE IF ~mv.protected THEN Unread(NoFacts)
       ELSE IF NeedsWorkloadLifetime /\ Retired THEN WorkloadRetirement
       ELSE IF starting /\ vol.phase = "Blocked" /\ vol.locked
            THEN IF vol.owner = "src" THEN Changed(PreparationFacts(t), FALSE) ELSE FAILED
       ELSE IF ~(/\ vol.owner = "src"
                 /\ \/ vol.phase = "Ready"
                    \/ starting /\ vol.phase = "Moving" /\ vol.locked) THEN FAILED
       ELSE IF mv.deleting THEN Changed(PreparationFacts(t), FALSE)
       ELSE ObservePreparationPlan(t)

ObserveCancellation ==
    LET restoring == vol.locked /\ vol.phase \in {"Moving", "Blocked"}
        claiming == mv.phase = "Canceling" /\ ~vol.locked /\ mv.plan
    IN IF \/ ~CancellablePreparation
          \/ mv.phase = "Cancelled" /\ mv.hold
          \/ vol.locked /\ ~(mv.plan /\ vol.owner = "src")
          \/ mv.phase = "Canceling" /\ ~vol.locked
               /\ \/ mv.hold
                  \/ mv.plan /\ ~(vol.owner = "src" /\ vol.phase = "Ready")
       THEN FAILED
       ELSE Saw([NoFacts EXCEPT !.PlacementAbsent =
                    ~restoring /\ ~claiming /\ placement.state = "none"])

(* Facts of execution before preparedExecutionChanged.  A namespace that    *)
(* opted out ends the observation before workload and placement are read.   *)
ExecutionFacts(t) ==
    LET base == [NoFacts EXCEPT !.OwnerCommitted = CommittedDestination(vol, FALSE),
                                !.SourceHealthy = t # "sick"]
        cleaning == mv.phase \in {"WaitingForDestinationPublish", "CleaningSource"}
        misplaced == pods["new"].state = "bound" /\ pods["new"].node = "src"
    IN IF vol.owner # "src" /\ ~base.OwnerCommitted
       THEN [base EXCEPT !.SourceAuthorityInvalid = TRUE]
       ELSE IF t = "optout" THEN base
       ELSE IF t = "ambiguous" /\ Unapproved
       THEN [base EXCEPT !.PreflightDeferred = TRUE, !.ConsumersAmbiguous = TRUE]
       ELSE [base EXCEPT
            !.ConsumersAmbiguous = t = "ambiguous",
            !.PublishedOnSource = "src" \in vol.published,
            !.CapacityBlocked = mv.reason # "none" /\ ~mv.approved,
            !.ReplacementExists = Replacement(t) # "none",
            !.ReplacementHeld = Replacement(t) = "held",
            !.PlacementExists = placement.state # "none",
            !.DestinationScheduled = placement.state = "scheduled" /\ PlacementIdentity,
            !.DestinationBlocked =
                misplaced \/ (placement.state # "none" /\ ~PlacementIdentity),
            !.DestinationUnavailable = t = "down",
            !.CopyComplete = jobs.copy.state = "complete",
            !.CopyFailed = jobs.copy.state = "failed",
            !.PromotionComplete = jobs.promote.state = "complete",
            !.PromotionFailed = jobs.promote.state = "failed",
            !.PublishedOnDestination =
                "dst" \in vol.published /\ pool.inventory.published,
            !.CleanupComplete = cleaning /\ journal.phase = "Completed",
            !.CleanupFailed = cleaning /\ journal.phase = "NeedsReview"]

PreparedExecutionChanged(o, t) ==
    IF mv.deleting \/ o.SourceAuthorityInvalid THEN Changed(o, FALSE)
    ELSE IF ~o.SourceHealthy THEN Changed(o, TRUE)
    ELSE IF ~cluster.cordoned THEN Changed(o, FALSE)
    ELSE IF t \in {"optout", "ambiguous"} THEN Changed(o, TRUE)
    ELSE IF Replacement(t) \notin {"none", "held"} THEN Changed(o, FALSE)
    ELSE PlacementVerdict(o, t)

(* A Move past preparation carries its hold or the approved disk plan.      *)
ValidPreparedStage ==
    IF Unapproved
    THEN /\ mv.hold /\ mv.protected
         /\ mv.phase \in {"WaitingForUnpublish", "WaitingForReplacement",
                          "WaitingForDestination", "WaitingForCapacity"}
    ELSE mv.intent /\ ~mv.hold

ObserveExecution(t) ==
    LET reviewed == /\ vol.phase = "Blocked" /\ vol.owner = "dst" /\ vol.locked
                    /\ mv.phase \in {"WaitingForDestinationPublish", "CleaningSource"}
                    /\ journal.phase = "NeedsReview"
        o == ExecutionFacts(t)
    IN IF ~ValidPreparedStage THEN FAILED
       ELSE IF mv.phase = "Completing"
       THEN Saw([NoFacts EXCEPT !.CompletionReady = CommittedDestination(vol, TRUE)])
       ELSE IF reviewed THEN Saw([NoFacts EXCEPT !.CleanupFailed = TRUE])
       ELSE IF NeedsWorkloadLifetime /\ Retired THEN WorkloadRetirement
       ELSE IF Unapproved THEN PreparedExecutionChanged(o, t)
       ELSE Saw(o)

(* Recovery acts for the recorded owner only, while nobody else publishes.  *)
RecoveryGuards ==
    /\ vol.locked /\ mv.recoveryOwner \in {"none", vol.owner}
    /\ \/ vol.phase = "Blocked"
       \/ vol.phase = "Ready" /\ mv.recovery \in {"Resuming", "Retiring", "Completing"}
    /\ vol.published \subseteq {vol.owner}

(* Mutant: an unlock whose reply was lost is not recognised.                *)
ObserveRecoveryLocked(t) ==
    LET uncordoned == vol.owner = "src" => ~cluster.cordoned
    IN IF ~RecoveryGuards \/ t \in {"sick", "down"} THEN FAILED
       ELSE IF mv.settle THEN Saw(NoFacts)
       ELSE IF uncordoned /\ ~Retired /\ t # "optout" THEN Saw(NoFacts)
       ELSE FAILED

ObserveRecovery(t) ==
    LET unlocked == /\ mv.recovery = "Completing" /\ ~vol.locked
                    /\ vol.phase = "Ready" /\ vol.owner = mv.recoveryOwner
        uncordoned == vol.owner = "src" => ~cluster.cordoned
    IN IF mv.settle /\ mv.recovery = "Completing" /\ ~vol.locked
       THEN IF unlocked /\ SettlementArtifactsClosed THEN Saw(NoFacts) ELSE FAILED
       ELSE IF unlocked THEN Saw([NoFacts EXCEPT !.RecoveryUnlockObserved = TRUE])
       ELSE IF ~RecoveryGuards \/ t \in {"sick", "down"} THEN FAILED
       ELSE IF mv.settle THEN Saw(NoFacts)
       ELSE IF uncordoned /\ ~Retired /\ t # "optout" THEN Saw(NoFacts)
       ELSE FAILED

ObserveBlocked(t) ==
    IF NeedsWorkloadLifetime /\ Retired THEN WorkloadRetirement
    ELSE IF NeedsRecoveryObservation THEN ObserveRecovery(t)
    ELSE Unread(NoFacts)

ObserveLifecycle(t) ==
    CASE mv.phase = "Succeeded" \/ mv.recovery = "Recovered" -> Unread(NoFacts)
      [] mv.phase \in {"Canceling", "Cancelled"} -> ObserveCancellation
      [] mv.phase = "Blocked" /\ mv.recovery # "Recovered" -> ObserveBlocked(t)
      [] mv.phase \in {"Pending", "Preparing", "StartingDisruption"} ->
            ObservePreparation(t)
      [] OTHER -> ObserveExecution(t)

LifecycleFacts(s) ==
    [s.facts EXCEPT
        !.ProtectionPresent = mv.protected,
        !.SourcePlanRecorded = mv.plan,
        !.SourceClaimed = s.read /\ vol.locked,
        !.PreparationReserved = mv.hold,
        !.DestinationIntentRecorded = ~NoDestinationIntent,
        !.CapacityApproved = mv.approved,
        !.SourceMoving = s.read /\ vol.phase = "Moving",
        !.SourceBlocked = s.read /\ vol.phase = "Blocked",
        !.RecoveryRequested = RecoveryRequested,
        !.SettlementOnly = mv.settle,
        !.RecoveryOwnerIsDestination = s.read /\ vol.owner = "dst"]

-----------------------------------------------------------------------------
(* A pass of the controller.                                                *)

Fault(i) == i \in Inputs /\ faults < MaxFaults /\ faults' = faults + 1

(* Anybody else's write of the Move makes the snapshot of a pass stale.     *)
Stale == IF ctl.step = "idle" THEN ctl ELSE [ctl EXCEPT !.fresh = FALSE]

NextStep(a) ==
    IF a \in {"Wait", "InitializePreparation", "ReleasePreparation", "BeginRecovery"}
    THEN "persist" ELSE "act"

(* Observe and decide.  A pass that would only write the phase it read, or  *)
(* only diagnostics, changes nothing that is modelled and is left out.      *)
Observe(t) ==
    LET s == ObserveLifecycle(t)
        d == Decide(mv.phase, mv.recovery, LifecycleFacts(s))
    IN /\ ctl.step = "idle" /\ mv.exists
       /\ s.ok /\ d # Refused /\ d.action # "FinalizeSourceUsage"
       /\ d.phase = "Canceling" => CancellablePreparation
       /\ ~(d.action = "Wait" /\ d.phase = mv.phase /\ d.recovery = mv.recovery)
       /\ ctl' = [step |-> NextStep(d.action), d |-> d,
                  vol |-> IF s.read THEN vol ELSE NoVolume,
                  held |-> s.facts.ReplacementHeld,
                  live |-> mv.phase = "StartingDisruption" /\ pods["old"].state = "bound",
                  committed |-> s.facts.OwnerCommitted, fresh |-> TRUE]

ObserveCalm == Observe("none") /\ UNCHANGED faults
ObserveTroubled == \E t \in Inputs \cap Troubles : Fault(t) /\ Observe(t)

End == ctl' = Idle
Done == ctl' = [ctl EXCEPT !.step = "persist"]
Continue(v) == ctl' = [ctl EXCEPT !.step = "act2", !.vol = v]

(* compareAndSetState: the expected phase, lock and owner; publication      *)
(* belongs to the nodes and is kept; Ready admits no publisher but the      *)
(* owner.                                                                   *)
StateMatches(v, phase, owner) ==
    /\ v.phase = vol.phase /\ v.owner = vol.owner /\ v.locked = vol.locked
    /\ phase = "Ready" => vol.published \subseteq {owner}

Written(phase, owner, locked) == Volume(phase, owner, locked, vol.published)

(* A compare-and-set of the Volume that ends the pass either way.           *)
SetVolume(phase, locked) ==
    /\ vol' = IF StateMatches(ctl.vol, phase, ctl.vol.owner)
              THEN Written(phase, ctl.vol.owner, locked) ELSE vol
    /\ End /\ UNCHANGED <<mv, journal, pods, placement, jobs, pool>>

(* A write of the Move by the pass itself, against the version it holds.    *)
Writable == ctl.fresh /\ mv.exists

ProtectMove ==
    /\ mv' = IF mv.deleting \/ ~mv.exists THEN mv ELSE [mv EXCEPT !.protected = TRUE]
    /\ End /\ UNCHANGED <<vol, journal, pods, placement, jobs, pool>>

(* The placement of this Move that the effect addresses.                    *)
CreatedPlacement ==
    IF placement.state = "none" THEN [state |-> "pending", exact |-> FALSE] ELSE placement
DeletedPlacement ==
    IF placement.state = "none" THEN placement ELSE [placement EXCEPT !.state = "terminating"]

(* The reservation is scheduled first; then capacity is granted under the   *)
(* Pool lock, for exactly this reservation.                                 *)
ReservePreparation ==
    LET grant == /\ placement.state = "scheduled" /\ Writable
                 /\ mv.protected /\ ~mv.deleting /\ ~mv.hold
                 /\ vol.phase = "Ready" /\ vol.locked /\ vol.owner = "src"
    IN /\ placement' = IF grant THEN [placement EXCEPT !.exact = TRUE] ELSE CreatedPlacement
       /\ mv' = IF grant THEN [mv EXCEPT !.hold = TRUE] ELSE mv
       /\ End /\ UNCHANGED <<vol, journal, pods, jobs, pool>>

ReservationRefused ==
    /\ ctl.d.action = "ReservePreparation" /\ placement.state = "scheduled"
    /\ placement' = DeletedPlacement /\ UNCHANGED mv

(* The source stops admitting mounts before its consumer is evicted.        *)
StartDisruption ==
    /\ IF ~PreparedPlacementIntact
       THEN /\ ctl' = [ctl EXCEPT !.d = Decision("Blocked", "none", "MarkBlocked"), !.vol = vol]
            /\ UNCHANGED vol
       ELSE IF ctl.vol.phase # "Ready" THEN Continue(ctl.vol) /\ UNCHANGED vol
       ELSE IF StateMatches(ctl.vol, "Moving", "src")
       THEN /\ vol' = Written("Moving", "src", TRUE)
            /\ Continue(vol')
       ELSE End /\ UNCHANGED vol
    /\ UNCHANGED <<mv, journal, pods, placement, jobs, pool>>

EvictConsumer ==
    /\ pods' = IF ctl.live /\ pods["old"].state = "bound"
               THEN [pods EXCEPT !["old"].state = "terminating"] ELSE pods
    /\ Done /\ UNCHANGED <<vol, mv, journal, placement, jobs, pool>>

EnsurePlacement ==
    /\ placement' = IF ctl.held THEN CreatedPlacement ELSE placement
    /\ IF ctl.held /\ (placement.state = "none" \/ PlacementIdentity) THEN Done ELSE End
    /\ UNCHANGED <<vol, mv, journal, pods, jobs, pool>>

(* The hold becomes execution approval, with the whole disk plan, in one    *)
(* write.                                                                   *)
EnsureCapacity ==
    /\ mv' = IF /\ Writable /\ mv.hold /\ vol.phase = "Moving" /\ vol.locked
                /\ vol.owner = "src" /\ vol.published = {}
             THEN [mv EXCEPT !.hold = FALSE, !.approved = TRUE, !.intent = TRUE,
                             !.reason = "none"]
             ELSE mv
    /\ End /\ UNCHANGED <<vol, journal, pods, placement, jobs, pool>>

SpaceRefused ==
    /\ ctl.d.action = "EnsureCapacity" /\ Writable /\ mv.hold
    /\ mv' = [mv EXCEPT !.reason = "Space"] /\ UNCHANGED placement

(* The replacement is pinned before disk work may start.                    *)
EnsureCopy ==
    LET pinned == /\ ctl.held /\ mv.approved /\ Writable
                  /\ pods["new"].state = "held" /\ pods["new"].node \in {"none", "dst"}
    IN /\ pods' = IF pinned THEN [pods EXCEPT !["new"].node = "dst"] ELSE pods
       /\ IF pinned THEN Continue(ctl.vol) ELSE End
       /\ UNCHANGED <<vol, mv, journal, placement, jobs, pool>>

(* The promotion is recorded before its Job may start.                      *)
EnsurePromotion ==
    /\ mv' = IF Writable THEN [mv EXCEPT !.promote = TRUE] ELSE mv
    /\ IF Writable THEN Continue(ctl.vol) ELSE End
    /\ UNCHANGED <<vol, journal, pods, placement, jobs, pool>>

(* Mutant: a Job that exists already does not complete the action.          *)
EnsureJobOnce(j) ==
    /\ jobs' = IF jobs[j].state = "none" THEN [jobs EXCEPT ![j] = NewJob] ELSE jobs
    /\ IF jobs[j].state = "none" THEN Done ELSE End
    /\ UNCHANGED <<vol, mv, journal, pods, placement, pool>>

(* ensureJob: an existing Job of this Move, whatever its state, is kept.    *)
EnsureJob(j) ==
    /\ jobs' = IF jobs[j].state = "none" THEN [jobs EXCEPT ![j] = NewJob] ELSE jobs
    /\ Done /\ UNCHANGED <<vol, mv, journal, pods, placement, pool>>

(* The one step that changes the owner.  A lost reply is recognised by its  *)
(* outcome.                                                                 *)
CommitOwner ==
    LET expected == Volume("Moving", "src", TRUE, {})
        wins == placement.state = "scheduled" /\ StateMatches(expected, "Ready", "dst")
        replayed == placement.state = "scheduled" /\ CommittedDestination(vol, FALSE)
    IN /\ vol' = IF ~ctl.committed /\ wins THEN Written("Ready", "dst", TRUE) ELSE vol
       /\ IF ctl.committed \/ wins \/ replayed THEN Done ELSE End
       /\ UNCHANGED <<mv, journal, pods, placement, jobs, pool>>

DeletePlacement ==
    LET cancelling == ctl.d.phase \in {"Canceling", "Cancelled"}
        deletes == cancelling \/ PlacementIdentity
    IN /\ placement' = IF deletes THEN DeletedPlacement ELSE placement
       /\ IF deletes /\ ~cancelling THEN Done ELSE End
       /\ UNCHANGED <<vol, mv, journal, pods, jobs, pool>>

ReleasePlacement ==
    LET present == ctl.held /\ pods["new"].state # "none"
        releases == /\ present /\ CommittedDestination(vol, FALSE) /\ ~Retired
                    /\ pods["new"].state = "held" /\ pods["new"].node \in {"none", "dst"}
        already == present /\ CommittedDestination(vol, FALSE) /\ ~Retired
                   /\ pods["new"].state = "bound" /\ pods["new"].node = "dst"
    IN /\ pods' = IF releases
                  THEN [pods EXCEPT !["new"].state = "bound", !["new"].node = "dst"]
                  ELSE pods
       /\ IF present => (releases \/ already) THEN Done ELSE End
       /\ UNCHANGED <<vol, mv, journal, placement, jobs, pool>>

Journal(phase, reason, target) == [phase |-> phase, reason |-> reason, target |-> target]

(* ensureCleanupSpec, with the reclaim protocol of module Cleanup in one    *)
(* step from Purged to Completed; a journal of another target is kept.      *)
DrivenJournal(reason, target) ==
    IF journal.phase = "None" THEN Journal("Running", reason, target)
    ELSE IF journal = Journal("Purged", reason, target)
    THEN Journal("Completed", reason, target)
    ELSE journal
CleanupClosed(reason, target) == journal = Journal("Completed", reason, target)

EnsureCleanup ==
    /\ journal' = DrivenJournal("MoveSource", "src")
    /\ IF CleanupClosed("MoveSource", "src") THEN Done ELSE End
    /\ UNCHANGED <<vol, mv, pods, placement, jobs, pool>>

ConfirmCleanup ==
    /\ IF CleanupClosed("MoveSource", "src") THEN Done ELSE End
    /\ UNCHANGED <<vol, mv, journal, pods, placement, jobs, pool>>

MarkSucceeded ==
    LET allowed == /\ CleanupClosed("MoveSource", "src")
                   /\ CommittedDestination(ctl.vol, TRUE)
        unlocks == ctl.vol.locked /\ StateMatches(ctl.vol, "Ready", "dst")
    IN /\ vol' = IF allowed /\ unlocks THEN Written("Ready", "dst", FALSE) ELSE vol
       /\ IF allowed /\ (unlocks \/ ~ctl.vol.locked) THEN Done ELSE End
       /\ UNCHANGED <<mv, journal, pods, placement, jobs, pool>>

(* The Volume is fenced before the Move is recorded as Blocked.             *)
MarkBlocked ==
    LET fenced(v) == v.phase = "Blocked" /\ v.locked
        unclaimed == ctl.vol.phase = "Ready" /\ ~ctl.vol.locked /\ mv.phase = "Pending"
        fences == /\ ctl.vol.phase \in {"Ready", "Moving"} /\ ctl.vol.locked
                  /\ StateMatches(ctl.vol, "Blocked", ctl.vol.owner)
        replayed == ctl.vol.phase \in {"Ready", "Moving"} /\ ctl.vol.locked /\ fenced(vol)
    IN /\ vol' = IF ~fenced(ctl.vol) /\ ~unclaimed /\ fences
                 THEN Written("Blocked", ctl.vol.owner, TRUE) ELSE vol
       /\ IF fenced(ctl.vol) \/ unclaimed \/ fences \/ replayed THEN Done ELSE End
       /\ UNCHANGED <<mv, journal, pods, placement, jobs, pool>>

(* The fence of a retired workload competes with the owner commit.          *)
RequestSettlement ==
    LET fences == ctl.vol.locked /\ StateMatches(ctl.vol, "Blocked", ctl.vol.owner)
    IN /\ vol' = IF fences THEN Written("Blocked", ctl.vol.owner, TRUE) ELSE vol
       /\ IF fences THEN Done ELSE End
       /\ UNCHANGED <<mv, journal, pods, placement, jobs, pool>>

(* The finalizer goes first; the record itself only after the retention     *)
(* time and when the Volume no longer names it.                             *)
FinalizeHistory ==
    LET settled == mv.phase = "Cancelled" \/ MoveCleanupSettled
    IN /\ mv' = IF ~settled \/ ~mv.exists THEN mv
                ELSE IF mv.protected
                THEN [mv EXCEPT !.protected = FALSE, !.exists = ~mv.deleting]
                ELSE [mv EXCEPT !.exists = vol.locked]
       /\ End /\ UNCHANGED <<vol, journal, pods, placement, jobs, pool>>

-----------------------------------------------------------------------------
(* Effects of recovery.                                                     *)

DeletedJob(j) == IF j.state = "none" THEN j ELSE [j EXCEPT !.state = "deleting"]

(* Mutant: asking the helpers to go counts as their absence.                *)
QuiesceRecoveryRequested ==
    /\ jobs' = [jobs EXCEPT !.copy = DeletedJob(@), !.promote = DeletedJob(@)]
    /\ placement' = IF PlacementIdentity THEN DeletedPlacement ELSE placement
    /\ Done
    /\ UNCHANGED <<vol, mv, journal, pods, pool>>

(* Every helper and the reservation must be gone, not only asked to go.     *)
QuiesceRecovery ==
    /\ jobs' = [jobs EXCEPT !.copy = DeletedJob(@), !.promote = DeletedJob(@)]
    /\ placement' = IF PlacementIdentity THEN DeletedPlacement ELSE placement
    /\ IF /\ jobs.copy.state = "none" /\ jobs.promote.state = "none"
          /\ placement.state = "none"
       THEN Done ELSE End
    /\ UNCHANGED <<vol, mv, journal, pods, pool>>

VerifyRecovery ==
    /\ jobs' = IF jobs.verify.state = "none" THEN [jobs EXCEPT !.verify = NewJob] ELSE jobs
    /\ IF jobs.verify.state = "complete" THEN Done ELSE End
    /\ UNCHANGED <<vol, mv, journal, pods, placement, pool>>

(* Mutant: any inventory counts, however old.                               *)
InventoryAny == mv.required > 0

(* Mutant: the scan must be newer than the one that was asked for.          *)
InventoryNewer ==
    mv.required > 0 /\ pool.inventory.generation = pool.generation
        /\ pool.generation > mv.required

(* What the newest inventory behind the fence says is at the destination.   *)
InventoryFresh ==
    mv.required > 0 /\ pool.inventory.generation = pool.generation
        /\ pool.generation >= mv.required
RollbackReadable ==
    /\ InventoryFresh /\ ~pool.inventory.published
    /\ ~(pool.inventory.incoming /\ pool.inventory.serving)
RollbackTarget == IF pool.inventory.incoming THEN "incoming" ELSE "dst"
ArtifactPresent == pool.inventory.incoming \/ pool.inventory.serving

(* MoveRetiresUnpublishedSource and PoolHasUnpublishedCopy.                 *)
MoveRetiresUnpublishedSource(v) ==
    /\ mv.settle /\ mv.phase = "Blocked" /\ mv.recovery = "Retiring"
    /\ mv.recoveryOwner = "dst" /\ mv.required > 0
    /\ v.phase = "Blocked" /\ v.owner = "dst" /\ v.locked /\ v.published = {}
UnpublishedCopyObserved ==
    /\ InventoryFresh /\ pool.inventory.serving /\ ~pool.inventory.incoming
    /\ ~pool.inventory.published

(* The evidence that lets the capacity hold be given back.                  *)
SourceRollbackSettled ==
    /\ RollbackReadable /\ ~ArtifactPresent
    /\ \/ journal.phase = "None"
       \/ journal.phase = "Completed" /\ journal.reason = "MoveRollback"
DestinationPublished(v) ==
    /\ v.phase = "Ready" /\ v.locked /\ "dst" \in v.published /\ "src" \notin v.published
    /\ pool.inventory.published

RetirementSettled ==
    CASE ctl.vol.owner = "src" ->
            \/ SourceRollbackSettled
            \/ RollbackReadable /\ ArtifactPresent
                  /\ CleanupClosed("MoveRollback", RollbackTarget)
      [] ctl.vol.owner = "dst" /\ mv.settle ->
            /\ MoveRetiresUnpublishedSource(ctl.vol) /\ UnpublishedCopyObserved
            /\ CleanupClosed("MoveSource", "src")
      [] OTHER -> DestinationPublished(ctl.vol) /\ CleanupClosed("MoveSource", "src")

(* Mutant: what the inventory shows is rolled back, whoever owns it.        *)
RetirementJournalUnowned ==
    IF RollbackReadable /\ ArtifactPresent
    THEN DrivenJournal("MoveRollback", RollbackTarget) ELSE journal

RetirementJournal ==
    CASE ctl.vol.owner = "src" ->
            IF ~RollbackReadable THEN journal
            ELSE IF ArtifactPresent THEN DrivenJournal("MoveRollback", RollbackTarget)
            ELSE IF journal.reason = "MoveRollback"
            THEN DrivenJournal("MoveRollback", journal.target)
            ELSE journal
      [] ctl.vol.owner = "dst" /\ mv.settle ->
            IF MoveRetiresUnpublishedSource(ctl.vol) /\ UnpublishedCopyObserved
            THEN DrivenJournal("MoveSource", "src") ELSE journal
      [] OTHER -> IF DestinationPublished(ctl.vol)
                  THEN DrivenJournal("MoveSource", "src") ELSE journal

(* settleRecoveryArtifacts: open the scan fence, drive the cleanup it       *)
(* calls for, give the hold back; each in a pass of its own.                *)
RetireRecovery ==
    LET settled == mv.reason = "RecoverySettled"
        fenceless == (ctl.vol.owner = "src" \/ mv.settle) /\ mv.required = 0
        blocked == ctl.vol.owner = "src" => ctl.vol.phase = "Blocked" /\ ctl.vol.locked
        opens == ~settled /\ blocked /\ fenceless
        drives == ~settled /\ blocked /\ ~fenceless
    IN /\ pool' = IF opens THEN [pool EXCEPT !.generation = @ + 1] ELSE pool
       /\ journal' = IF drives THEN RetirementJournal ELSE journal
       /\ mv' = IF drives /\ RetirementSettled /\ Writable
                THEN [mv EXCEPT !.approved = FALSE, !.reason = "RecoverySettled"]
                ELSE mv
       /\ IF settled /\ ~mv.approved THEN Done
          ELSE IF opens THEN Continue(ctl.vol) ELSE End
       /\ UNCHANGED <<vol, pods, placement, jobs>>

(* The generation the destination Pool must be scanned at.                  *)
RecordRollbackScan ==
    /\ mv' = IF Writable THEN [mv EXCEPT !.required = pool.generation] ELSE mv
    /\ End /\ UNCHANGED <<vol, journal, pods, placement, jobs, pool>>

(* Mounts are reopened, then consumers that are not on the owner evicted.   *)
ResumeRecovery ==
    LET waiting == \E c \in Consumers : pods[c].state = "terminating"
        placed(c) == pods[c].state = "bound" /\ pods[c].node = mv.recoveryOwner
        strays == {c \in Consumers : pods[c].state \in {"bound", "held"} /\ ~placed(c)}
        reopens == ctl.vol.phase = "Blocked"
    IN /\ vol' = IF reopens /\ StateMatches(ctl.vol, "Ready", ctl.vol.owner)
                 THEN Written("Ready", ctl.vol.owner, TRUE) ELSE vol
       /\ IF reopens \/ waiting \/ strays = {} THEN UNCHANGED pods
          ELSE \E c \in strays : pods' = [pods EXCEPT ![c].state =
                                    IF @ = "held" THEN "none" ELSE "terminating",
                                  ![c].node = IF pods[c].state = "held" THEN "none" ELSE @]
       /\ IF /\ ~reopens /\ ~waiting /\ strays = {} /\ \E c \in Consumers : placed(c)
             /\ ctl.vol.owner \in ctl.vol.published
          THEN Done ELSE End
       /\ UNCHANGED <<mv, journal, placement, jobs, pool>>

CompleteRecovery ==
    LET closed == mv.settle => SettlementArtifactsClosed
        quiet == jobs.verify.state = "none"
        released == mv.settle /\ ~ctl.vol.locked
        phase == IF mv.settle THEN "Ready" ELSE ctl.vol.phase
        unlocks == StateMatches(ctl.vol, phase, ctl.vol.owner)
    IN /\ jobs' = IF closed THEN [jobs EXCEPT !.verify = DeletedJob(@)] ELSE jobs
       /\ vol' = IF closed /\ quiet /\ ~released /\ unlocks
                 THEN Written(phase, ctl.vol.owner, FALSE) ELSE vol
       /\ IF closed /\ quiet /\ (released \/ unlocks) THEN Done ELSE End
       /\ UNCHANGED <<mv, journal, pods, placement, pool>>

-----------------------------------------------------------------------------
Effect(a) ==
    CASE a = "ProtectMove" -> ProtectMove
      [] a = "ClaimSource" -> SetVolume(ctl.vol.phase, TRUE)
      [] a = "RestoreSource" -> SetVolume("Ready", ctl.vol.locked)
      [] a = "ReleaseSource" -> SetVolume(ctl.vol.phase, FALSE)
      [] a = "ReservePreparation" -> ReservePreparation
      [] a = "StartDisruption" -> StartDisruption
      [] a = "EnsurePlacement" -> EnsurePlacement
      [] a = "EnsureCapacity" -> EnsureCapacity
      [] a = "EnsureCopy" -> EnsureCopy
      [] a = "EnsurePromotion" -> EnsurePromotion
      [] a = "CommitOwner" -> CommitOwner
      [] a = "DeletePlacement" -> DeletePlacement
      [] a = "ReleasePlacement" -> ReleasePlacement
      [] a = "EnsureCleanup" -> EnsureCleanup
      [] a = "ConfirmCleanup" -> ConfirmCleanup
      [] a = "MarkSucceeded" -> MarkSucceeded
      [] a = "MarkBlocked" -> MarkBlocked
      [] a = "RequestSettlement" -> RequestSettlement
      [] a = "FinalizeHistory" -> FinalizeHistory
      [] a = "QuiesceRecovery" -> QuiesceRecovery
      [] a = "VerifyRecovery" -> VerifyRecovery
      [] a = "RetireRecovery" -> RetireRecovery
      [] a = "ResumeRecovery" -> ResumeRecovery
      [] a = "CompleteRecovery" -> CompleteRecovery

(* The second write of an action that makes two.                            *)
SecondEffect(a) ==
    CASE a = "StartDisruption" -> EvictConsumer
      [] a = "EnsureCopy" -> EnsureJob("copy")
      [] a = "EnsurePromotion" -> EnsureJob("promote")
      [] a = "RetireRecovery" -> RecordRollbackScan

Act ==
    /\ \/ ctl.step = "act" /\ Effect(ctl.d.action)
       \/ ctl.step = "act2" /\ SecondEffect(ctl.d.action)
    /\ UNCHANGED <<cluster, disk, written, faults>>

CapacityRefused ==
    /\ ctl.step = "act" /\ Fault("space")
    /\ ReservationRefused \/ SpaceRefused
    /\ End
    /\ UNCHANGED <<vol, journal, cluster, pods, jobs, disk, written, pool>>

(* Mutant: a new recovery forgets the scan fence of the one before.         *)
PersistForgetful ==
    /\ ctl.step = "persist" /\ End
    /\ mv' = IF ~Writable THEN mv ELSE
         LET next == [mv EXCEPT !.phase = ctl.d.phase, !.recovery = ctl.d.recovery]
         IN CASE ctl.d.action = "InitializePreparation" -> [next EXCEPT !.plan = TRUE]
              [] ctl.d.action = "ReleasePreparation" -> [next EXCEPT !.hold = FALSE]
              [] ctl.d.action = "BeginRecovery" ->
                    [next EXCEPT !.recoveryOwner = ctl.vol.owner, !.required = 0]
              [] ctl.d.action = "RequestSettlement" ->
                    [next EXCEPT !.settle = TRUE, !.recoveryOwner = "none"]
              [] OTHER -> next
    /\ UNCHANGED <<vol, journal, cluster, pods, placement, jobs, disk, written, pool, faults>>

(* applyMoveDecision on the version the pass holds.                         *)
Persist ==
    /\ ctl.step = "persist" /\ End
    /\ mv' = IF ~Writable THEN mv ELSE
         LET next == [mv EXCEPT !.phase = ctl.d.phase, !.recovery = ctl.d.recovery]
         IN CASE ctl.d.action = "InitializePreparation" -> [next EXCEPT !.plan = TRUE]
              [] ctl.d.action = "ReleasePreparation" -> [next EXCEPT !.hold = FALSE]
              [] ctl.d.action = "BeginRecovery" ->
                    [next EXCEPT !.recoveryOwner = ctl.vol.owner]
              [] ctl.d.action = "RequestSettlement" ->
                    [next EXCEPT !.settle = TRUE, !.recoveryOwner = "none"]
              [] OTHER -> next
    /\ UNCHANGED <<vol, journal, cluster, pods, placement, jobs, disk, written, pool, faults>>

(* The controller restarts, or the reply to its last write is lost.         *)
Crash ==
    /\ ctl.step # "idle" /\ faults < MaxFaults /\ faults' = faults + 1
    /\ End
    /\ UNCHANGED <<vol, mv, journal, cluster, pods, placement, jobs, disk, written, pool>>

Look ==
    /\ ObserveCalm \/ ObserveTroubled
    /\ UNCHANGED <<vol, mv, journal, cluster, pods, placement, jobs, disk, written, pool>>

Controller == Look \/ Act \/ CapacityRefused \/ Persist \/ Crash

-----------------------------------------------------------------------------
(* Helper Jobs.  A Pod asks for authority, works under the volume lock of   *)
(* the node, and asks again before its result counts.  Deleting the Job     *)
(* does not interrupt it, only the end of the Pod does.                     *)

MoveAuthority(j) ==
    /\ mv.exists /\ mv.phase \in (IF j = "copy" THEN {"WaitingForCapacity", "Copying"}
                                                ELSE {"Copying", "Promoting"})
    /\ IF j = "copy" THEN mv.intent ELSE mv.promote
    /\ vol.phase = "Moving" /\ vol.locked /\ vol.owner = "src" /\ "src" \notin vol.published
RecoveryAuthority ==
    /\ mv.exists /\ mv.phase = "Blocked" /\ mv.recovery = "Verifying"
    /\ mv.recoveryOwner = vol.owner
    /\ vol.phase = "Blocked" /\ vol.locked /\ vol.published \subseteq {vol.owner}
Authority(j) == IF j = "verify" THEN RecoveryAuthority ELSE MoveAuthority(j)

Running(j) == jobs[j].state \in {"active", "deleting"}
JobAt(j, pc) == jobs' = [jobs EXCEPT ![j].pc = pc]
JobKind == {"copy", "promote", "verify"}

HelperAuthorize(j) ==
    /\ jobs[j].state = "active" /\ jobs[j].pc = "idle" /\ Authority(j)
    /\ JobAt(j, IF j = "verify" THEN "written" ELSE "authorized") /\ UNCHANGED disk

(* The volume lock of the destination node is free.                         *)
Unlocked == \A j \in {"copy", "promote"} : jobs[j].pc \notin {"writing", "written"}
JobFails(j) == jobs' = [jobs EXCEPT ![j] = [state |-> "failed", pc |-> "idle"]]

(* PopulateIncoming: the directory and its record are created together; a   *)
(* receipt says the copy is complete already.                               *)
CopyBegin ==
    LET complete == jobs.copy.state = "active" /\ disk.receipt
    IN /\ Running("copy") /\ jobs.copy.pc = "authorized" /\ Unlocked
       /\ IF disk.meta /\ disk.incoming = 0 THEN JobFails("copy") /\ UNCHANGED disk
          ELSE /\ jobs' = [jobs EXCEPT !.copy =
                    IF complete THEN [state |-> "complete", pc |-> "idle"]
                    ELSE [@ EXCEPT !.pc = IF disk.receipt THEN "idle" ELSE "writing"]]
               /\ disk' = [disk EXCEPT !.meta = TRUE,
                              !.incoming = IF disk.meta /\ disk.receipt THEN @ ELSE -1]

(* Mutant: the copy is not verified before it counts.                       *)
CopyEndUnverified ==
    /\ Running("copy") /\ jobs.copy.pc = "writing"
    /\ JobAt("copy", "written") /\ UNCHANGED disk

CopyEnd ==
    /\ Running("copy") /\ jobs.copy.pc = "writing"
    /\ JobAt("copy", "written") /\ disk' = [disk EXCEPT !.incoming = disk.src]

(* PromoteIncoming: a receipt is replayed; a missing incoming directory was *)
(* moved before an interruption; a directory in the way is never replaced.  *)
PromoteRename ==
    LET replayed == disk.promoted /\ disk.dst # 0 /\ ~(disk.meta /\ disk.incoming # 0)
        moved == ~disk.promoted /\ disk.meta /\ disk.incoming = 0 /\ disk.dst # 0
        moves == ~disk.promoted /\ disk.meta /\ disk.incoming # 0 /\ disk.dst = 0
    IN /\ Running("promote") /\ jobs.promote.pc = "authorized" /\ Unlocked
       /\ IF replayed \/ moved \/ moves THEN JobAt("promote", "written")
          ELSE JobFails("promote")
       /\ disk' = IF moves THEN [disk EXCEPT !.dst = disk.incoming, !.incoming = 0]
                  ELSE disk

(* The receipt, and for a promotion the end of the incoming record.         *)
HelperFinish(j) ==
    /\ jobs[j].state = "active" /\ jobs[j].pc = "written" /\ Authority(j)
    /\ jobs' = [jobs EXCEPT ![j] = [state |-> "complete", pc |-> "idle"]]
    /\ disk' = CASE j = "copy" -> [disk EXCEPT !.receipt = TRUE]
                 [] j = "promote" -> [disk EXCEPT !.promoted = TRUE, !.meta = FALSE]
                 [] OTHER -> disk
HelperRefused(j) ==
    /\ jobs[j].state = "active" /\ ~Authority(j) /\ JobFails(j) /\ UNCHANGED disk
HelperGone(j) ==
    /\ jobs[j].state = "deleting" /\ jobs' = [jobs EXCEPT ![j] = NoJob] /\ UNCHANGED disk

Helper(j) ==
    /\ \/ HelperAuthorize(j) \/ HelperFinish(j) \/ HelperRefused(j) \/ HelperGone(j)
       \/ j = "copy" /\ (CopyBegin \/ CopyEnd)
       \/ j = "promote" /\ PromoteRename
    /\ UNCHANGED <<vol, mv, journal, ctl, cluster, pods, placement, written, pool, faults>>

(* A finished copy or promotion Job expires; a helper Pod dies and is       *)
(* replaced, or its Job gives up.                                           *)
HelperFault(j) ==
    /\ \/ /\ Fault("expire") /\ j # "verify" /\ jobs[j].state \in {"complete", "failed"}
          /\ jobs' = [jobs EXCEPT ![j] = NoJob]
       \/ /\ Fault("fail") /\ jobs[j].state = "active"
          /\ JobFails(j) \/ (j # "verify" /\ jobs[j].pc # "idle" /\ JobAt(j, "idle"))
    /\ UNCHANGED <<vol, mv, journal, ctl, cluster, pods, placement, disk, written, pool>>

-----------------------------------------------------------------------------
(* The cleanup executor and the scanner of the destination Pool.            *)

MoveSourceAuthority ==
    IF mv.settle
    THEN MoveRetiresUnpublishedSource(vol) /\ UnpublishedCopyObserved
    ELSE /\ \/ mv.phase \in {"WaitingForDestinationPublish", "CleaningSource"}
            \/ /\ mv.phase = "Blocked" /\ mv.recovery = "Retiring"
               /\ mv.recoveryOwner = "dst"
         /\ vol.owner = "dst" /\ DestinationPublished(vol)
MoveRollbackAuthority ==
    /\ mv.phase = "Blocked" /\ RecoveryRequested /\ mv.recovery = "Retiring"
    /\ mv.recoveryOwner = "src"
    /\ vol.phase = "Blocked" /\ vol.owner = "src" /\ vol.locked
    /\ "dst" \notin vol.published
CleanupAuthority ==
    /\ journal.phase = "Running" /\ mv.exists
    /\ IF journal.reason = "MoveSource" THEN MoveSourceAuthority ELSE MoveRollbackAuthority

PurgeAuthorize ==
    /\ jobs.purge = "idle" /\ CleanupAuthority
    /\ jobs' = [jobs EXCEPT !.purge = "authorized"]
    /\ UNCHANGED <<journal, ctl, disk>>
Purge ==
    /\ jobs.purge = "authorized" /\ (journal.target = "src" \/ Unlocked)
    /\ jobs' = [jobs EXCEPT !.purge = "idle"]
    /\ journal' = [journal EXCEPT !.phase = "Purged"]
    /\ disk' = IF journal.target = "incoming"
               THEN [disk EXCEPT !.incoming = 0, !.meta = FALSE]
               ELSE [disk EXCEPT ![journal.target] = 0]
    /\ ctl' = Stale
Executor ==
    /\ PurgeAuthorize \/ Purge
    /\ UNCHANGED <<vol, mv, cluster, pods, placement, written, pool, faults>>
CleanupReview ==
    /\ Fault("fail") /\ journal.phase = "Running" /\ jobs.purge = "idle"
    /\ journal' = [journal EXCEPT !.phase = "NeedsReview"] /\ ctl' = Stale
    /\ UNCHANGED <<vol, mv, cluster, pods, placement, jobs, disk, written, pool>>

(* A scan is published only under the generation it began with.             *)
DestinationView == [generation |-> pool.generation,
    incoming |-> disk.incoming # 0, serving |-> disk.dst # 0,
    published |-> \E c \in Consumers : pods[c].node = "dst" /\ pods[c].mount = "yes"]
ScanBegin ==
    /\ pool.scan = NoInventory /\ DestinationView # pool.inventory
    /\ pool' = [pool EXCEPT !.scan = DestinationView]
ScanEnd ==
    /\ pool.scan # NoInventory
    /\ pool' = [pool EXCEPT !.scan = NoInventory,
                  !.inventory = IF pool.scan.generation = pool.generation
                                THEN pool.scan ELSE @]
Scanner ==
    /\ ScanBegin \/ ScanEnd
    /\ UNCHANGED <<vol, mv, journal, ctl, cluster, pods, placement, jobs, disk, written, faults>>

-----------------------------------------------------------------------------
(* The workload and its kubelets.                                           *)

NewPod(state, node) == [state |-> state, node |-> node, mount |-> "no"]

(* The workload controller replaces a Pod that is going away.  Admission    *)
(* holds it unless the Volume is Ready on a schedulable owner.              *)
MutatePod ==
    /\ pods["old"].state \in {"terminating", "none"} /\ pods["new"].state = "none"
    /\ cluster.claim = "bound"
    /\ pods' = [pods EXCEPT !["new"] =
                  IF vol.phase # "Ready" \/ (vol.owner = "src" /\ cluster.cordoned)
                  THEN NewPod("held", "none") ELSE NewPod("bound", vol.owner)]
    /\ UNCHANGED vol

(* A held Pod outside every unsettled Move goes to the owner.               *)
ReleaseOwnerPlacement ==
    /\ pods["new"].state = "held" /\ vol.phase = "Ready" /\ ~vol.locked
    /\ pods["new"].node \in {"none", vol.owner}
    /\ vol.owner = "src" => ~cluster.cordoned
    /\ mv.exists => MoveCleanupSettled /\ journal.phase \in {"None", "Completed"}
    /\ pods' = [pods EXCEPT !["new"] = NewPod("bound", vol.owner)]
    /\ UNCHANGED vol

(* NodePublish under the volume lock: intent, then bind mount.              *)
BeginPublish(c) ==
    /\ pods[c].state = "bound" /\ pods[c].mount = "no"
    /\ vol.phase = "Ready" /\ vol.owner = pods[c].node /\ disk[pods[c].node] # 0
    /\ vol' = [vol EXCEPT !.published = @ \cup {pods[c].node}]
    /\ pods' = [pods EXCEPT ![c].mount = "begun"]
Mount(c) ==
    /\ pods[c].mount = "begun"
    /\ pods' = [pods EXCEPT ![c].mount = "yes"] /\ UNCHANGED vol

(* NodeUnpublish: unmount, then reconcile the publication under the lock    *)
(* from the mounts that remain.  Another owner's Volume is left alone.      *)
Unmount(c) ==
    /\ pods[c].state = "terminating" /\ pods[c].mount \in {"no", "yes"}
    /\ pods' = [pods EXCEPT ![c].mount = "unmounted"] /\ UNCHANGED vol

(* Mutant: the mount of another Pod on the node is not looked for.          *)
ReconcilePublishedBlindly(c) ==
    /\ pods[c].mount = "unmounted"
    /\ vol' = IF vol.owner = pods[c].node
               THEN [vol EXCEPT !.published = @ \ {pods[c].node}] ELSE vol
    /\ pods' = [pods EXCEPT ![c] = NewPod("none", "none")]

ReconcilePublished(c) ==
    LET node == pods[c].node
        others == Consumers \ {c}
        still == \E o \in others : pods[o].node = node /\ pods[o].mount = "yes"
    IN /\ pods[c].mount = "unmounted"
       /\ \A o \in others : ~(pods[o].node = node /\ pods[o].mount = "begun")
       /\ still /\ vol.owner = node => vol.phase = "Ready"
       /\ vol' = IF vol.owner = node /\ ~still
                 THEN [vol EXCEPT !.published = @ \ {node}] ELSE vol
       /\ pods' = [pods EXCEPT ![c] = NewPod("none", "none")]

Workload ==
    /\ \/ MutatePod \/ ReleaseOwnerPlacement
       \/ \E c \in Consumers : BeginPublish(c) \/ Mount(c) \/ Unmount(c) \/ ReconcilePublished(c)
    /\ UNCHANGED <<mv, journal, ctl, cluster, placement, jobs, disk, written, pool, faults>>

(* The application writes through a mount.                                  *)
Write(c) ==
    /\ pods[c].mount = "yes" /\ written < MaxWrites
    /\ written' = written + 1
    /\ disk' = [disk EXCEPT ![pods[c].node] = written']
    /\ UNCHANGED <<vol, mv, journal, ctl, cluster, pods, placement, jobs, pool, faults>>

(* The node service restarts between the intent and the mount.              *)
PublishInterrupted(c) ==
    /\ Fault("fail") /\ pods[c].mount = "begun"
    /\ pods' = [pods EXCEPT ![c].mount = "no"]
    /\ UNCHANGED <<vol, mv, journal, ctl, cluster, placement, jobs, disk, written, pool>>

(* The workload controller replaces a Pod for reasons of its own, once the  *)
(* Move has recorded which Pod it moves.                                    *)
RollPod(c) ==
    /\ Fault("rollout") /\ mv.plan /\ pods[c].state = "bound"
    /\ pods' = [pods EXCEPT ![c].state = "terminating"]
    /\ UNCHANGED <<vol, mv, journal, ctl, cluster, placement, jobs, disk, written, pool>>

(* The scheduler and the kubelet of the reservation Pod.                    *)
Scheduler ==
    /\ \/ placement.state = "pending" /\ placement' = [placement EXCEPT !.state = "scheduled"]
       \/ placement.state = "terminating" /\ placement' = [state |-> "none", exact |-> FALSE]
    /\ UNCHANGED <<vol, mv, journal, ctl, cluster, pods, jobs, disk, written, pool, faults>>
Preempt ==
    /\ Fault("preempt") /\ placement.state = "scheduled"
    /\ placement' = [placement EXCEPT !.state = "terminating"]
    /\ UNCHANGED <<vol, mv, journal, ctl, cluster, pods, jobs, disk, written, pool>>

-----------------------------------------------------------------------------
(* The operator.                                                            *)

Uncordon ==
    /\ "uncordon" \in Inputs /\ cluster.cordoned
    /\ cluster' = [cluster EXCEPT !.cordoned = FALSE] /\ UNCHANGED <<mv, ctl, pods>>
RequestRecovery ==
    /\ "recover" \in Inputs /\ mv.exists /\ mv.phase = "Blocked" /\ ~mv.requested
    /\ mv' = [mv EXCEPT !.requested = TRUE] /\ ctl' = Stale /\ UNCHANGED <<cluster, pods>>
DeleteMove ==
    /\ "delete" \in Inputs /\ mv.exists /\ ~mv.deleting
    /\ mv' = [mv EXCEPT !.deleting = TRUE, !.exists = mv.protected]
    /\ ctl' = Stale /\ UNCHANGED <<cluster, pods>>

(* The workload is removed and, once no Pod uses it, the claim.             *)
CloseWorkload ==
    /\ "retire" \in Inputs /\ cluster.claim = "bound"
    /\ cluster' = [cluster EXCEPT !.claim = "closing"]
    /\ pods' = [c \in Consumers |->
                  CASE pods[c].state = "bound" -> [pods[c] EXCEPT !.state = "terminating"]
                    [] pods[c].state = "held" -> NewPod("none", "none")
                    [] OTHER -> pods[c]]
    /\ UNCHANGED <<mv, ctl>>
RetireClaim ==
    /\ cluster.claim = "closing" /\ \A c \in Consumers : pods[c].state = "none"
    /\ cluster' = [cluster EXCEPT !.claim = "retired"] /\ UNCHANGED <<mv, ctl, pods>>

Operator ==
    /\ Uncordon \/ RequestRecovery \/ DeleteMove \/ CloseWorkload \/ RetireClaim
    /\ UNCHANGED <<vol, journal, placement, jobs, disk, written, pool, faults>>

Environment == Preempt \/ CleanupReview \/ (\E j \in JobKind : HelperFault(j))
                  \/ (\E c \in Consumers : PublishInterrupted(c) \/ RollPod(c))

Next ==
    \/ Controller \/ (\E j \in JobKind : Helper(j)) \/ Executor \/ Scanner
    \/ Workload \/ (\E c \in Consumers : Write(c)) \/ Scheduler
    \/ Operator \/ Environment

Spec == Init /\ [][Next]_vars

-----------------------------------------------------------------------------
MountStates == {"no", "begun", "yes", "unmounted"}
JobRecords == [state : {"none", "active", "complete", "failed", "deleting"},
               pc : {"idle", "authorized", "writing", "written"}]
Inventories == [generation : Nat, incoming : BOOLEAN, serving : BOOLEAN,
                published : BOOLEAN]
Volumes == [phase : {"Ready", "Moving", "Blocked"}, owner : Nodes, locked : BOOLEAN,
            published : SUBSET Nodes]
Moves == [phase : MovePhases, recovery : RecoveryPhases,
          recoveryOwner : Nodes \cup {"none"}, plan : BOOLEAN, hold : BOOLEAN,
          approved : BOOLEAN, intent : BOOLEAN, promote : BOOLEAN,
          settle : BOOLEAN, required : Nat, reason : {"none", "Space", "RecoverySettled"},
          requested : BOOLEAN, protected : BOOLEAN, deleting : BOOLEAN,
          exists : BOOLEAN]
Journals == [phase : {"None", "Running", "Purged", "Completed", "NeedsReview"},
             reason : {"none", "MoveSource", "MoveRollback"},
             target : {"none", "src", "incoming", "dst"}]
Decisions == [phase : MovePhases, recovery : RecoveryPhases, action : MoveActions]
Passes == [step : {"idle", "act", "act2", "persist"}, d : Decisions \cup {Refused},
           vol : Volumes \cup {NoVolume}, held : BOOLEAN, live : BOOLEAN,
           committed : BOOLEAN, fresh : BOOLEAN]
PodRecords == [state : {"none", "held", "bound", "terminating"},
               node : Nodes \cup {"none"}, mount : MountStates]
Placements == [state : {"none", "pending", "scheduled", "terminating"}, exact : BOOLEAN]
JobSets == [copy : JobRecords, promote : JobRecords, verify : JobRecords,
            purge : {"idle", "authorized"}]
Disks == [src : Int, incoming : Int, dst : Int, meta : BOOLEAN, receipt : BOOLEAN,
          promoted : BOOLEAN]

(* The shape of the API objects, of the pass and of the disks.              *)
TypeOK ==
    /\ vol \in Volumes /\ mv \in Moves /\ journal \in Journals
    /\ ctl \in Passes /\ (ctl.step # "idle" => ctl.d \in Decisions)
    /\ cluster \in [claim : {"bound", "closing", "retired"}, cordoned : BOOLEAN]
    /\ pods \in [Consumers -> PodRecords] /\ placement \in Placements
    /\ jobs \in JobSets /\ disk \in Disks /\ written \in Nat
    /\ pool \in [generation : Nat, inventory : Inventories, scan : Inventories]
    /\ faults \in 0..MaxFaults
=============================================================================
