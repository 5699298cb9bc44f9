--------------------------- MODULE MoveFSMReasons ---------------------------
(***************************************************************************)
(* What a decision of MoveFSM says about the observation it was made on:   *)
(* every phase it is about to record and every action it is about to take  *)
(* has its reason in the phase that was read or in a fact that was         *)
(* observed.  The proofs about whole Moves use nothing else of the decision*)
(* function.                                                               *)
(***************************************************************************)
EXTENDS MoveFSM

(* Phases whose Volume has been handed to the destination.                  *)
Committed == {"Committing", "ReleasingDestination", "WaitingForDestinationPublish",
              "CleaningSource", "Completing", "Succeeded"}

(* Actions with an effect of their own, and those that only record.         *)
Effects == {"ProtectMove", "ClaimSource", "RestoreSource", "ReleaseSource",
    "ReservePreparation", "StartDisruption", "EnsurePlacement", "EnsureCapacity",
    "EnsureCopy", "EnsurePromotion", "CommitOwner", "DeletePlacement",
    "ReleasePlacement", "EnsureCleanup", "ConfirmCleanup", "MarkSucceeded",
    "MarkBlocked", "RequestSettlement", "FinalizeHistory", "QuiesceRecovery",
    "VerifyRecovery", "RetireRecovery", "ResumeRecovery", "CompleteRecovery"}

PersistOnly == {"Wait", "InitializePreparation", "ReleasePreparation", "BeginRecovery"}

PhaseNames == {"Pending", "Preparing", "StartingDisruption", "Canceling", "Cancelled",
    "WaitingForUnpublish", "WaitingForReplacement", "WaitingForDestination",
    "WaitingForCapacity", "Copying", "Promoting", "Committing", "ReleasingDestination",
    "WaitingForDestinationPublish", "CleaningSource", "Completing", "Succeeded",
    "Blocked"}

(* What it says about observation o that, in phase p and recovery phase r,  *)
(* action a is decided and phases q and s are to be recorded after it.      *)
PhaseReason(p, o, q, a) ==
    /\ q \in Committed => p \in Committed \/ a = "CommitOwner"
    /\ q = "Promoting" => p = "Promoting" \/ a = "EnsurePromotion"
    /\ q = "StartingDisruption" => p = "StartingDisruption" \/ o.PreparationReserved
    /\ q = "Succeeded" => p = "Succeeded" \/ a = "MarkSucceeded"
    /\ q = "Cancelled" => p = "Cancelled" \/ BeforeExecutionApproval(o)
    /\ p \in {"Succeeded", "Cancelled"} => q = p
    /\ p = "Blocked" => q = "Blocked" \/ BeforeExecutionApproval(o)

RecoveryReason(p, r, o, s, a) ==
    /\ r = "Recovered" => s = "Recovered"
    /\ s = "Recovered" => \/ r = "Recovered" \/ a = "CompleteRecovery"
                          \/ p = "Blocked" /\ r = "Completing" /\ o.RecoveryUnlockObserved
    /\ s # "none" => p = "Blocked" /\ (~BeforeExecutionApproval(o) \/ r # "none")
    /\ s \notin {"none", "Quiescing"} =>
          r \notin {"none", "Quiescing"} \/ a = "QuiesceRecovery"
    /\ s = "Completing" => a \in {"RetireRecovery", "ResumeRecovery"}
    /\ s = "Retiring" => \/ a = "ResumeRecovery"
                         \/ /\ a = "VerifyRecovery"
                            /\ ~o.RecoveryOwnerIsDestination \/ o.SettlementOnly

ActionReason(p, r, o, q, s, a) ==
    /\ a \in {"ReservePreparation", "StartDisruption", "ClaimSource",
              "InitializePreparation", "ReleasePreparation"} => BeforeExecutionApproval(o)
    /\ a \in {"ClaimSource", "InitializePreparation"} =>
          o.ProtectionPresent \/ (p = "Canceling" /\ o.SourcePlanRecorded)
    /\ a = "StartDisruption" =>
          p = "StartingDisruption" /\ o.PreparationReserved /\ o.SourceClaimed
    /\ a = "EnsureCapacity" => p = "WaitingForCapacity"
    /\ a \in {"ReleaseSource", "ReleasePreparation"} =>
          /\ p \in {"Canceling", "Cancelled"}
          /\ ~(o.SourceClaimed /\ (o.SourceMoving \/ o.SourceBlocked))
    /\ a = "ReleasePreparation" => q = "Cancelled"
    /\ a \in {"EnsureCopy", "EnsurePromotion"} => r = "none" /\ s = "none"
    /\ a \in {"EnsureCopy", "EnsurePromotion", "CommitOwner"} => p # "Blocked"
    /\ a = "EnsurePromotion" => p = "Promoting" \/ o.CopyComplete
    /\ a = "CommitOwner" => p = "Committing" \/ o.OwnerCommitted \/ o.PromotionComplete
    /\ a = "EnsureCleanup" => p \in Committed
    /\ a = "MarkBlocked" =>
          /\ r = "none" /\ s = "none"
          /\ p \notin {"Pending", "Preparing", "Canceling", "Cancelled", "Blocked"}
    /\ a = "RequestSettlement" => ~BeforeExecutionApproval(o) /\ o.WorkloadRetired
    /\ a = "FinalizeHistory" => \/ p = "Succeeded" \/ r = "Recovered"
                                \/ p = "Cancelled" /\ ~o.SourceClaimed

RecoveryActionReason(p, r, o, s, a) ==
    /\ a \in {"VerifyRecovery", "RetireRecovery", "ResumeRecovery", "CompleteRecovery"} =>
          /\ p = "Blocked" /\ o.RecoveryRequested
          /\ ~(o.WorkloadRetired /\ ~BeforeExecutionApproval(o))
    /\ a = "RetireRecovery" =>
          /\ r = "Retiring"
          /\ s = "Completing" => o.RecoveryOwnerIsDestination \/ o.SettlementOnly
    /\ a = "QuiesceRecovery" => p = "Blocked"
    /\ a = "ResumeRecovery" => r = "Resuming"
    /\ a = "CompleteRecovery" => r = "Completing"

Sound(p, r, o, q, s, a) ==
    /\ q \in PhaseNames /\ s \in RecoveryPhases
    /\ a \in Effects \cup PersistOnly
    /\ PhaseReason(p, o, q, a) /\ RecoveryReason(p, r, o, s, a)
    /\ ActionReason(p, r, o, q, s, a) /\ RecoveryActionReason(p, r, o, s, a)

Reasoned(p, r, o, d) ==
    \/ d = Refused \/ d.action = "FinalizeSourceUsage"
    \/ \E q, s, a : d = Decision(q, s, a) /\ Sound(p, r, o, q, s, a)

Executing == {"WaitingForUnpublish", "WaitingForReplacement", "WaitingForDestination",
    "WaitingForCapacity", "Copying", "Promoting", "Committing", "ReleasingDestination",
    "WaitingForDestinationPublish", "CleaningSource"}
=============================================================================
