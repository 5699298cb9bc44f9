------------------------------ MODULE MoveFSM ------------------------------
(***************************************************************************)
(* The pure decision function of a planned cold move.                      *)
(*                                                                         *)
(* Decide selects one step from the persisted phase of the Move and one    *)
(* observation of the cluster.  Each rule table below is read top down,    *)
(* the first rule that applies owns the decision; the order is the order   *)
(* of the checks in the code.  An observation is a record of Booleans      *)
(* named as in the code (PreparationChanged stands for a nonempty          *)
(* PreparationChangedReason); the reasons shown to an operator are left    *)
(* out.  Refused stands for a returned error: the pass ends with no effect.*)
(* "none" stands for an empty string of the API.                           *)
(***************************************************************************)

Decision(p, r, a) == [phase |-> p, recovery |-> r, action |-> a]
Refused == Decision("none", "none", "Refuse")

AllowedTransitions == [
    Pending |-> {"Pending", "Preparing", "Blocked", "Canceling"},
    Preparing |-> {"Preparing", "StartingDisruption", "Canceling"},
    StartingDisruption |->
        {"StartingDisruption", "WaitingForUnpublish", "Canceling", "Blocked"},
    Canceling |-> {"Canceling", "Cancelled"},
    Cancelled |-> {"Cancelled"},
    WaitingForUnpublish |->
        {"WaitingForUnpublish", "WaitingForReplacement", "Blocked", "Canceling"},
    WaitingForReplacement |->
        {"WaitingForReplacement", "WaitingForDestination", "Blocked", "Canceling"},
    WaitingForDestination |->
        {"WaitingForDestination", "WaitingForCapacity", "Blocked", "Canceling"},
    WaitingForCapacity |->
        {"WaitingForCapacity", "Copying", "Blocked", "Canceling"},
    Copying |-> {"Copying", "Promoting", "Blocked"},
    Promoting |-> {"Promoting", "Committing", "Blocked"},
    Committing |-> {"Committing", "ReleasingDestination", "Blocked"},
    ReleasingDestination |->
        {"ReleasingDestination", "WaitingForDestinationPublish", "Blocked"},
    WaitingForDestinationPublish |->
        {"WaitingForDestinationPublish", "CleaningSource", "Blocked"},
    CleaningSource |-> {"CleaningSource", "Completing", "Blocked"},
    Completing |-> {"Completing", "Succeeded"},
    Succeeded |-> {"Succeeded"},
    Blocked |-> {"Blocked", "Canceling"}]

MovePhases == DOMAIN AllowedTransitions
RecoveryPhases == {"none", "Quiescing", "Verifying", "Retiring", "Resuming",
                   "Completing", "Recovered"}
MoveActions == {"Wait", "ProtectMove", "InitializePreparation", "ClaimSource",
    "RestoreSource", "ReleaseSource", "ReservePreparation", "ReleasePreparation",
    "StartDisruption", "EnsurePlacement", "EnsureCapacity", "EnsureCopy",
    "EnsurePromotion", "CommitOwner", "DeletePlacement", "ReleasePlacement",
    "EnsureCleanup", "ConfirmCleanup", "MarkSucceeded", "MarkBlocked",
    "RequestSettlement", "FinalizeHistory", "FinalizeSourceUsage", "BeginRecovery",
    "QuiesceRecovery", "VerifyRecovery", "RetireRecovery", "ResumeRecovery",
    "CompleteRecovery"}

Transition(from, to, a) ==
    IF to \in AllowedTransitions[from] THEN Decision(to, "none", a) ELSE Refused
Stay(p, a) == Transition(p, p, a)

BeforeExecutionApproval(o) == ~o.CapacityApproved /\ ~o.DestinationIntentRecorded
DisruptionPossible(p) == p \notin {"none", "Pending", "Preparing"}
BeforeCommit(p) ==
    p \in {"Pending", "WaitingForUnpublish", "WaitingForReplacement",
           "WaitingForDestination", "WaitingForCapacity", "Copying",
           "Promoting", "Committing"}

BlockedWith(p, o) ==
    IF BeforeExecutionApproval(o) /\ ~DisruptionPossible(p)
    THEN Decision("Canceling", "none", "Wait")
    ELSE Decision("Blocked", "none", "MarkBlocked")

PreparationChanged(p, o) ==
    IF /\ DisruptionPossible(p)
       /\ o.PreparationUnavailable /\ ~o.SourceAuthorityInvalid
    THEN Stay(p, "Wait")
    ELSE BlockedWith(p, o)

-----------------------------------------------------------------------------
(* Preparation, before any disruption of the workload.                      *)

ReservedSourceLost(o) ==
    o.PreparationReserved /\ ~(o.SourcePlanRecorded /\ o.SourceClaimed)

DecidePreparation(p, o) ==
    IF ReservedSourceLost(o) THEN Refused
    ELSE IF ~o.ProtectionPresent THEN Stay(p, "ProtectMove")
    ELSE IF o.SourceAuthorityInvalid THEN BlockedWith(p, o)
    ELSE IF ~o.SourceHealthy \/ ~o.PreconditionsValid \/ o.PreflightDeferred THEN
        IF o.PreparationReserved THEN BlockedWith(p, o)
        ELSE Stay(p, IF o.PlacementExists THEN "DeletePlacement" ELSE "Wait")
    ELSE IF ~o.SourcePlanRecorded
         THEN Transition(p, "Preparing", "InitializePreparation")
    ELSE IF p = "Pending" THEN Transition(p, "Preparing", "Wait")
    ELSE IF ~o.SourceClaimed THEN Stay(p, "ClaimSource")
    ELSE IF ~o.PreparationReserved THEN Stay(p, "ReservePreparation")
    ELSE Transition(p, "StartingDisruption", "Wait")

DecideStartingDisruption(p, o) ==
    IF ~(/\ o.ProtectionPresent /\ o.SourcePlanRecorded
         /\ o.SourceClaimed /\ o.PreparationReserved) THEN Refused
    ELSE IF o.SourceAuthorityInvalid THEN BlockedWith(p, o)
    ELSE IF ~o.SourceHealthy \/ o.PreflightDeferred THEN Stay(p, "Wait")
    ELSE IF o.ReplacementExists /\ ~o.ReplacementHeld THEN BlockedWith(p, o)
    ELSE Transition(p, "WaitingForUnpublish", "StartDisruption")

(* Mutant: the hold is given back before the source is restored.            *)
DecideCancellationHoldFirst(p, o) ==
    IF ReservedSourceLost(o) THEN Refused
    ELSE IF p = "Canceling" /\ o.SourcePlanRecorded /\ ~o.SourceClaimed
         THEN Decision(p, "none", "ClaimSource")
    ELSE IF p = "Canceling" THEN Transition(p, "Cancelled", "ReleasePreparation")
    ELSE IF o.SourceClaimed /\ (o.SourceMoving \/ o.SourceBlocked)
         THEN Decision(p, "none", "RestoreSource")
    ELSE IF ~o.PlacementAbsent THEN Decision(p, "none", "DeletePlacement")
    ELSE IF o.SourceClaimed THEN Decision(p, "none", "ReleaseSource")
    ELSE Decision(p, "none", "FinalizeHistory")

(* Mutant: a cancelled Move is retired without unlocking its source.        *)
DecideCancellationLocked(p, o) ==
    IF ReservedSourceLost(o) THEN Refused
    ELSE IF p = "Canceling" /\ o.SourcePlanRecorded /\ ~o.SourceClaimed
         THEN Decision(p, "none", "ClaimSource")
    ELSE IF o.SourceClaimed /\ (o.SourceMoving \/ o.SourceBlocked)
         THEN Decision(p, "none", "RestoreSource")
    ELSE IF ~o.PlacementAbsent THEN Decision(p, "none", "DeletePlacement")
    ELSE IF p = "Canceling" THEN Transition(p, "Cancelled", "ReleasePreparation")
    ELSE Decision(p, "none", "FinalizeHistory")

DecideCancellation(p, o) ==
    IF ReservedSourceLost(o) THEN Refused
    ELSE IF p = "Canceling" /\ o.SourcePlanRecorded /\ ~o.SourceClaimed
         THEN Decision(p, "none", "ClaimSource")
    ELSE IF o.SourceClaimed /\ (o.SourceMoving \/ o.SourceBlocked)
         THEN Decision(p, "none", "RestoreSource")
    ELSE IF ~o.PlacementAbsent THEN Decision(p, "none", "DeletePlacement")
    ELSE IF p = "Canceling" THEN Transition(p, "Cancelled", "ReleasePreparation")
    ELSE IF o.SourceClaimed THEN Decision(p, "none", "ReleaseSource")
    ELSE Decision(p, "none", "FinalizeHistory")

-----------------------------------------------------------------------------
(* Recovery of a blocked Move.                                              *)

DecideRecovery(r, o) ==
    LET dst == o.RecoveryOwnerIsDestination
        To(next, a) == Decision("Blocked", next, a)
    IN CASE r = "none" -> To("Quiescing", "BeginRecovery")
         [] r = "Quiescing" -> To("Verifying", "QuiesceRecovery")
         [] r = "Verifying" ->
                To(IF dst /\ ~o.SettlementOnly THEN "Resuming" ELSE "Retiring",
                   "VerifyRecovery")
         [] r = "Retiring" ->
                To(IF dst \/ o.SettlementOnly THEN "Completing" ELSE "Resuming",
                   "RetireRecovery")
         [] r = "Resuming" ->
                To(IF dst THEN "Retiring" ELSE "Completing", "ResumeRecovery")
         [] r = "Completing" ->
                To("Recovered",
                   IF o.RecoveryUnlockObserved THEN "Wait" ELSE "CompleteRecovery")

DecideBlocked(r, o) ==
    IF r = "Recovered" THEN Decision("Blocked", r, "FinalizeHistory")
    ELSE IF (BeforeExecutionApproval(o) /\ r = "none") \/ ~o.RecoveryRequested
         THEN Decision("Blocked", r, "FinalizeSourceUsage")
    ELSE DecideRecovery(r, o)

-----------------------------------------------------------------------------
(* Execution.  A guard that applies owns the decision: each takes the       *)
(* decision of the remaining rules as its last parameter.                   *)

DestinationGuard(p, o, rest) ==
    IF o.DestinationUnavailable THEN Stay(p, "Wait")
    ELSE IF o.DestinationBlocked THEN BlockedWith(p, o)
    ELSE rest

PlacementGuard(p, o, rest) ==
    IF ~o.PlacementExists \/ ~o.DestinationScheduled
    THEN Stay(p, "EnsurePlacement") ELSE rest

ConsumerGuard(p, o, rest) ==
    IF o.ConsumersAmbiguous /\ ~o.OwnerCommitted THEN Stay(p, "Wait") ELSE rest

AuthorityGuard(p, o, rest) ==
    IF o.SourceAuthorityInvalid THEN BlockedWith(p, o)
    ELSE IF BeforeCommit(p) /\ ~o.OwnerCommitted /\ ~o.SourceHealthy THEN
        IF BeforeExecutionApproval(o) /\ DisruptionPossible(p)
        THEN Stay(p, "Wait") ELSE BlockedWith(p, o)
    ELSE rest

HeldReplacement(o) == o.ReplacementExists /\ o.ReplacementHeld

DecideWaitingForUnpublish(p, o) ==
    Transition(p, IF o.PublishedOnSource THEN p ELSE "WaitingForReplacement", "Wait")

DecideWaitingForReplacement(p, o) ==
    IF ~o.ReplacementExists THEN Stay(p, "Wait")
    ELSE IF ~o.ReplacementHeld THEN BlockedWith(p, o)
    ELSE Transition(p, "WaitingForDestination", "EnsurePlacement")

DecideWaitingForDestination(p, o) ==
    IF o.DestinationBlocked THEN BlockedWith(p, o)
    ELSE IF ~o.ReplacementExists THEN Stay(p, "Wait")
    ELSE IF ~o.ReplacementHeld THEN BlockedWith(p, o)
    ELSE IF ~o.DestinationScheduled THEN Stay(p, "EnsurePlacement")
    ELSE Transition(p, "WaitingForCapacity", "Wait")

DecideWaitingForCapacity(p, o) ==
    DestinationGuard(p, o, ConsumerGuard(p, o,
        IF ~o.CapacityBlocked /\ o.CapacityApproved
        THEN Transition(p, "Copying", "EnsureCopy")
        ELSE Stay(p, "EnsureCapacity")))

(* Mutant: promotion does not wait for the copy Job to complete.            *)
DecideCopyingUnverified(p, o) ==
    DestinationGuard(p, o,
        IF o.CopyFailed THEN BlockedWith(p, o)
        ELSE ConsumerGuard(p, o, PlacementGuard(p, o,
            Transition(p, "Promoting", "EnsurePromotion"))))

DecideCopying(p, o) ==
    DestinationGuard(p, o,
        IF o.CopyFailed THEN BlockedWith(p, o)
        ELSE ConsumerGuard(p, o, PlacementGuard(p, o,
            IF o.CopyComplete THEN Transition(p, "Promoting", "EnsurePromotion")
            ELSE Stay(p, "EnsureCopy"))))

(* Mutant: the owner is committed while the promotion Job still runs.       *)
DecidePromotingEarly(p, o) ==
    IF o.OwnerCommitted THEN Transition(p, "Committing", "CommitOwner")
    ELSE DestinationGuard(p, o,
        IF o.PromotionFailed THEN BlockedWith(p, o)
        ELSE ConsumerGuard(p, o, PlacementGuard(p, o,
            Transition(p, "Committing", "CommitOwner"))))

DecidePromoting(p, o) ==
    IF o.OwnerCommitted THEN Transition(p, "Committing", "CommitOwner")
    ELSE DestinationGuard(p, o,
        IF o.PromotionFailed THEN BlockedWith(p, o)
        ELSE ConsumerGuard(p, o, PlacementGuard(p, o,
            IF o.PromotionComplete THEN Transition(p, "Committing", "CommitOwner")
            ELSE Stay(p, "EnsurePromotion"))))

DecideCommitting(p, o) ==
    IF o.OwnerCommitted THEN
        IF o.DestinationUnavailable THEN Stay(p, "Wait")
        ELSE Transition(p, "ReleasingDestination", "DeletePlacement")
    ELSE DestinationGuard(p, o, ConsumerGuard(p, o, PlacementGuard(p, o,
            Stay(p, "CommitOwner"))))

(* Mutant: the deletion request counts as the end of the reservation.       *)
DecideReleasingDestinationEarly(p, o) ==
    IF o.DestinationUnavailable THEN Stay(p, "Wait")
    ELSE Transition(p, "WaitingForDestinationPublish",
                    IF HeldReplacement(o) THEN "ReleasePlacement" ELSE "Wait")

DecideReleasingDestination(p, o) ==
    IF o.DestinationUnavailable THEN Stay(p, "Wait")
    ELSE IF o.PlacementExists THEN Stay(p, "DeletePlacement")
    ELSE Transition(p, "WaitingForDestinationPublish",
                    IF HeldReplacement(o) THEN "ReleasePlacement" ELSE "Wait")

(* Mutant: a replacement that is still held is not looked at again.         *)
DecideWaitingForDestinationPublishOnce(p, o) ==
    IF o.CleanupFailed THEN BlockedWith(p, o)
    ELSE IF o.DestinationUnavailable \/ ~o.PublishedOnDestination THEN Stay(p, "Wait")
    ELSE Transition(p, "CleaningSource", "EnsureCleanup")

DecideWaitingForDestinationPublish(p, o) ==
    IF o.CleanupFailed THEN BlockedWith(p, o)
    ELSE IF o.DestinationUnavailable THEN Stay(p, "Wait")
    ELSE IF HeldReplacement(o) THEN Stay(p, "ReleasePlacement")
    ELSE IF ~o.PublishedOnDestination THEN Stay(p, "Wait")
    ELSE Transition(p, "CleaningSource", "EnsureCleanup")

DecideCleaningSource(p, o) ==
    IF o.DestinationUnavailable THEN Stay(p, "Wait")
    ELSE IF o.CleanupFailed THEN BlockedWith(p, o)
    ELSE IF HeldReplacement(o) THEN Stay(p, "ReleasePlacement")
    ELSE IF o.CleanupComplete THEN Transition(p, "Completing", "ConfirmCleanup")
    ELSE Stay(p, "EnsureCleanup")

DecideCompleting(p, o) ==
    IF o.CompletionReady THEN Transition(p, "Succeeded", "MarkSucceeded")
    ELSE Stay(p, "Wait")

DecideExecution(p, o) ==
    IF p = "Completing" THEN DecideCompleting(p, o)
    ELSE AuthorityGuard(p, o,
        CASE p = "WaitingForUnpublish" -> DecideWaitingForUnpublish(p, o)
          [] p = "WaitingForReplacement" -> DecideWaitingForReplacement(p, o)
          [] p = "WaitingForDestination" -> DecideWaitingForDestination(p, o)
          [] p = "WaitingForCapacity" -> DecideWaitingForCapacity(p, o)
          [] p = "Copying" -> DecideCopying(p, o)
          [] p = "Promoting" -> DecidePromoting(p, o)
          [] p = "Committing" -> DecideCommitting(p, o)
          [] p = "ReleasingDestination" -> DecideReleasingDestination(p, o)
          [] p = "WaitingForDestinationPublish" ->
                DecideWaitingForDestinationPublish(p, o)
          [] p = "CleaningSource" -> DecideCleaningSource(p, o))

-----------------------------------------------------------------------------
ValidState(p, r, o) ==
    /\ r # "none" => p = "Blocked"
    /\ p \in {"Pending", "Preparing", "StartingDisruption", "Canceling",
              "Cancelled"} => BeforeExecutionApproval(o)
    /\ p = "Cancelled" => ~o.PreparationReserved

CanCancelRetiredPreparation(p, r, o) ==
    /\ o.WorkloadRetired /\ BeforeExecutionApproval(o)
    /\ p \notin {"Canceling", "Cancelled", "Succeeded"} /\ r = "none"

CancelRetiredPreparation(p, o) ==
    IF /\ ~o.SourceAuthorityInvalid /\ o.SourcePlanRecorded
       /\ o.SourceClaimed /\ o.PreparationReserved
    THEN Transition(p, "Canceling", "Wait") ELSE Refused

CanRequestSettlement(p, r, o) ==
    /\ o.WorkloadRetired /\ r # "Recovered" /\ ~BeforeExecutionApproval(o)
    /\ p \notin {"Succeeded", "Cancelled", "Canceling"}

DecideLifecycle(p, r, o) ==
    IF CanCancelRetiredPreparation(p, r, o) THEN CancelRetiredPreparation(p, o)
    ELSE IF CanRequestSettlement(p, r, o)
         THEN Decision("Blocked", "none", "RequestSettlement")
    ELSE IF p = "Succeeded" THEN Decision(p, r, "FinalizeHistory")
    ELSE IF p \in {"Canceling", "Cancelled"} THEN DecideCancellation(p, o)
    ELSE IF p = "Blocked" THEN DecideBlocked(r, o)
    ELSE IF BeforeExecutionApproval(o) /\ o.PreparationChanged
         THEN PreparationChanged(p, o)
    ELSE IF p \in {"Pending", "Preparing"} THEN DecidePreparation(p, o)
    ELSE IF p = "StartingDisruption" THEN DecideStartingDisruption(p, o)
    ELSE DecideExecution(p, o)

Decide(p, r, o) ==
    IF ValidState(p, r, o) THEN DecideLifecycle(p, r, o) ELSE Refused
=============================================================================
