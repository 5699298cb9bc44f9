---------------------------- MODULE MobilitySteps ---------------------------
(***************************************************************************)
(* Every decision of MoveFSM has its reason, and the invariant of module   *)
(* MobilityInvariant is kept by observing, by the helpers, the executor and*)
(* the scanner, by the workload and the environment, and by the effects of *)
(* the controller on the Volume; MobilityProofs adds its other effects and *)
(* draws the conclusions.                                                  *)
(***************************************************************************)
EXTENDS MobilityInvariant, TLAPS

(* The provers of a leaf that names none.                                    *)
USE SMTT(15), Z3T(15), ZenonT(30)

-----------------------------------------------------------------------------
(* The reasons of decisions.                                                *)

(* The phases of a Move are the domain of the transition table.             *)
LEMMA PhasesAre == MovePhases = PhaseNames
  BY DEF MovePhases, AllowedTransitions, PhaseNames

(* Every decision has its reasons: what Decide of mobility/fsm chooses says *)
(* this much about what was observed.                                       *)
THEOREM DecisionsAreReasoned ==
  \A p \in PhaseNames, r \in RecoveryPhases : \A o : Reasoned(p, r, o, Decide(p, r, o))

(* Common decisions outside recovery.                                       *)
<1>WaitReasoned.
  ASSUME NEW p \in PhaseNames, NEW o,
         NEW a \in {"Wait", "ProtectMove", "DeletePlacement", "EnsurePlacement",
                    "ReleasePlacement", "RestoreSource"}
  PROVE  Sound(p, "none", o, p, "none", a)
  BY <1>WaitReasoned
    DEF Sound, PhaseReason, RecoveryReason, ActionReason, RecoveryActionReason,
         PhaseNames, RecoveryPhases, Effects, PersistOnly, Committed
(* A decision is reasoned when its three parts are.                         *)
<1>DecisionReasoned.
  ASSUME NEW p, NEW r, NEW o, NEW q, NEW s, NEW a, Sound(p, r, o, q, s, a)
  PROVE  Reasoned(p, r, o, Decision(q, s, a))
  BY <1>DecisionReasoned DEF Reasoned
(* So is a transition.                                                      *)
<1>TransitionReasoned.
  ASSUME NEW p, NEW o, NEW q, NEW a, Sound(p, "none", o, q, "none", a)
  PROVE  Reasoned(p, "none", o, Transition(p, q, a))
  BY <1>TransitionReasoned, <1>DecisionReasoned DEF Transition, Reasoned
(* Repeating an action in the same phase is reasoned.                       *)
<1>StayReasoned.
  ASSUME NEW p \in PhaseNames, NEW o,
         NEW a \in {"Wait", "ProtectMove", "DeletePlacement", "EnsurePlacement",
                    "ReleasePlacement", "RestoreSource"}
  PROVE  /\ Reasoned(p, "none", o, Stay(p, a))
         /\ Reasoned(p, "none", o, Decision(p, "none", a))
  BY <1>StayReasoned, <1>WaitReasoned, <1>TransitionReasoned, <1>DecisionReasoned DEF Stay
(* Stopping in Blocked is reasoned.                                         *)
<1>BlockedWithReasoned.
  ASSUME NEW p \in PhaseNames \ {"Canceling", "Cancelled", "Succeeded", "Blocked"}, NEW o,
         p \in {"Pending", "Preparing"} => BeforeExecutionApproval(o)
  PROVE  Reasoned(p, "none", o, BlockedWith(p, o))
  <2> USE <1>BlockedWithReasoned
  <2>1. CASE BeforeExecutionApproval(o) /\ ~DisruptionPossible(p)
    <3>1. Sound(p, "none", o, "Canceling", "none", "Wait")
      BY DEF Sound, PhaseReason, RecoveryReason, ActionReason, RecoveryActionReason,
             PhaseNames, RecoveryPhases, Effects, PersistOnly, Committed
    <3> QED  BY <2>1, <3>1, <1>DecisionReasoned DEF BlockedWith
  <2>2. CASE ~(BeforeExecutionApproval(o) /\ ~DisruptionPossible(p))
    <3>1. p \notin {"Pending", "Preparing"}
      BY <2>2 DEF DisruptionPossible
    <3>2. Sound(p, "none", o, "Blocked", "none", "MarkBlocked")
      BY <3>1 DEF Sound, PhaseReason, RecoveryReason, ActionReason, RecoveryActionReason,
             PhaseNames, RecoveryPhases, Effects, PersistOnly, Committed
    <3> QED  BY <2>2, <3>2, <1>DecisionReasoned DEF BlockedWith
  <2> QED  BY <2>1, <2>2
(* The rule for a changed preparation is reasoned.                          *)
<1>ChangedReasoned.
  ASSUME NEW p \in PhaseNames \ {"Canceling", "Cancelled", "Succeeded", "Blocked"}, NEW o,
         BeforeExecutionApproval(o)
  PROVE  Reasoned(p, "none", o, PreparationChanged(p, o))
  BY <1>ChangedReasoned, <1>BlockedWithReasoned, <1>StayReasoned DEF PreparationChanged
(* The rules of preparation are reasoned.                                   *)
<1>PreparationReasoned.
  ASSUME NEW p \in {"Pending", "Preparing"}, NEW o, BeforeExecutionApproval(o)
  PROVE  Reasoned(p, "none", o, DecidePreparation(p, o))
  <2> USE <1>PreparationReasoned
  <2> USE DEF Sound, PhaseReason, RecoveryReason, ActionReason, RecoveryActionReason,
              PhaseNames, RecoveryPhases, Effects, PersistOnly, Committed
  <2>1. o.ProtectionPresent => Sound(p, "none", o, "Preparing", "none", "InitializePreparation")
    OBVIOUS
  <2>2. Sound(p, "none", o, "Preparing", "none", "Wait")
    OBVIOUS
  <2>3. o.ProtectionPresent => Sound(p, "none", o, p, "none", "ClaimSource")
    OBVIOUS
  <2>4. Sound(p, "none", o, p, "none", "ReservePreparation")
    OBVIOUS
  <2>5. o.PreparationReserved => Sound(p, "none", o, "StartingDisruption", "none", "Wait")
    OBVIOUS
  <2> HIDE DEF Sound
  <2>6. p \in PhaseNames \ {"Canceling", "Cancelled", "Succeeded", "Blocked"}
    OBVIOUS
  <2>7. Reasoned(p, "none", o, Refused)
    BY DEF Reasoned
  <2> HIDE DEF PhaseNames
  <2> QED
    BY <2>1, <2>2, <2>3, <2>4, <2>5, <2>6, <2>7, <1>TransitionReasoned, <1>StayReasoned,
       <1>BlockedWithReasoned
    DEF DecidePreparation, Stay
(* The rules for the start of the disruption are reasoned.                  *)
<1>StartingReasoned.
  ASSUME NEW o, BeforeExecutionApproval(o)
  PROVE  LET p == "StartingDisruption"
         IN Reasoned(p, "none", o, DecideStartingDisruption(p, o))
  <2> USE <1>StartingReasoned
  <2> DEFINE p == "StartingDisruption"
  <2>1. o.PreparationReserved /\ o.SourceClaimed =>
          Sound(p, "none", o, "WaitingForUnpublish", "none", "StartDisruption")
    BY DEF Sound, PhaseReason, RecoveryReason, ActionReason, RecoveryActionReason,
           PhaseNames, RecoveryPhases, Effects, PersistOnly, Committed
  <2>2. p \in PhaseNames \ {"Canceling", "Cancelled", "Succeeded", "Blocked"}
    BY DEF PhaseNames
  <2>3. Reasoned(p, "none", o, Refused)
    BY DEF Reasoned
  <2> QED
    BY <2>1, <2>2, <2>3, <1>TransitionReasoned, <1>StayReasoned, <1>BlockedWithReasoned
    DEF DecideStartingDisruption
(* The rules of cancellation are reasoned.                                  *)
<1>CancellationReasoned.
  ASSUME NEW p \in {"Canceling", "Cancelled"}, NEW o, BeforeExecutionApproval(o)
  PROVE  Reasoned(p, "none", o, DecideCancellation(p, o))
  <2> USE <1>CancellationReasoned
  <2> USE DEF Sound, PhaseReason, RecoveryReason, ActionReason, RecoveryActionReason,
              PhaseNames, RecoveryPhases, Effects, PersistOnly, Committed
  <2>1. p = "Canceling" /\ o.SourcePlanRecorded => Sound(p, "none", o, p, "none", "ClaimSource")
    OBVIOUS
  <2>2. p = "Canceling" /\ ~(o.SourceClaimed /\ (o.SourceMoving \/ o.SourceBlocked)) =>
          Sound(p, "none", o, "Cancelled", "none", "ReleasePreparation")
    OBVIOUS
  <2>3. ~(o.SourceClaimed /\ (o.SourceMoving \/ o.SourceBlocked)) =>
          Sound(p, "none", o, p, "none", "ReleaseSource")
    OBVIOUS
  <2>4. p = "Cancelled" /\ ~o.SourceClaimed => Sound(p, "none", o, p, "none", "FinalizeHistory")
    OBVIOUS
  <2> HIDE DEF Sound
  <2>5. p \in PhaseNames
    OBVIOUS
  <2>6. Reasoned(p, "none", o, Refused)
    BY DEF Reasoned
  <2> HIDE DEF PhaseNames
  <2> QED
    BY <2>1, <2>2, <2>3, <2>4, <2>5, <2>6, <1>TransitionReasoned, <1>DecisionReasoned,
         <1>StayReasoned
    DEF DecideCancellation
(* The rules of Blocked and of recovery are reasoned.                       *)
<1>BlockedReasoned.
  ASSUME NEW r \in RecoveryPhases, NEW o, ~CanRequestSettlement("Blocked", r, o)
  PROVE  Reasoned("Blocked", r, o, DecideBlocked(r, o))
  <2> USE <1>BlockedReasoned
  <2> DEFINE dst == o.RecoveryOwnerIsDestination
             p == "Blocked"
  <2> USE DEF Sound, PhaseReason, RecoveryReason, ActionReason, RecoveryActionReason,
              PhaseNames, RecoveryPhases, Effects, PersistOnly, Committed
  <2>1. r = "Recovered" => Sound(p, r, o, p, r, "FinalizeHistory")
    OBVIOUS
  <2> HIDE DEF Sound
  <2>3. CASE r = "Recovered"
    BY <2>1, <2>3, <1>DecisionReasoned DEF DecideBlocked
  <2>4. CASE r # "Recovered" /\ ((BeforeExecutionApproval(o) /\ r = "none")
                                  \/ ~o.RecoveryRequested)
    BY <2>4 DEF DecideBlocked, Decision, Reasoned
  <2>5. CASE /\ r # "Recovered" /\ ~(BeforeExecutionApproval(o) /\ r = "none")
             /\ o.RecoveryRequested
    <3>1. DecideBlocked(r, o) = DecideRecovery(r, o)
      BY <2>5 DEF DecideBlocked
    <3>2. ~(o.WorkloadRetired /\ ~BeforeExecutionApproval(o))
      BY <2>5 DEF CanRequestSettlement
    <3>3. CASE r = "none"
      <4>1. Sound(p, r, o, p, "Quiescing", "BeginRecovery")
        BY <2>5, <3>3 DEF Sound
      <4> QED  BY <3>1, <3>3, <4>1, <1>DecisionReasoned DEF DecideRecovery
    <3>4. CASE r = "Quiescing"
      <4>1. Sound(p, r, o, p, "Verifying", "QuiesceRecovery")
        BY <3>4 DEF Sound
      <4> QED  BY <3>1, <3>4, <4>1, <1>DecisionReasoned DEF DecideRecovery
    <3>5. CASE r = "Verifying"
      <4>1. CASE dst /\ ~o.SettlementOnly
        <5>1. Sound(p, r, o, p, "Resuming", "VerifyRecovery")
          BY <2>5, <3>2, <3>5 DEF Sound
        <5> QED  BY <3>1, <3>5, <4>1, <5>1, <1>DecisionReasoned DEF DecideRecovery
      <4>2. CASE ~(dst /\ ~o.SettlementOnly)
        <5>1. Sound(p, r, o, p, "Retiring", "VerifyRecovery")
          BY <2>5, <3>2, <3>5, <4>2 DEF Sound
        <5> QED  BY <3>1, <3>5, <4>2, <5>1, <1>DecisionReasoned DEF DecideRecovery
      <4> QED  BY <4>1, <4>2
    <3>6. CASE r = "Retiring"
      <4>1. CASE dst \/ o.SettlementOnly
        <5>1. Sound(p, r, o, p, "Completing", "RetireRecovery")
          BY <2>5, <3>2, <3>6, <4>1 DEF Sound
        <5> QED  BY <3>1, <3>6, <4>1, <5>1, <1>DecisionReasoned DEF DecideRecovery
      <4>2. CASE ~(dst \/ o.SettlementOnly)
        <5>1. Sound(p, r, o, p, "Resuming", "RetireRecovery")
          BY <2>5, <3>2, <3>6 DEF Sound
        <5> QED  BY <3>1, <3>6, <4>2, <5>1, <1>DecisionReasoned DEF DecideRecovery
      <4> QED  BY <4>1, <4>2
    <3>7. CASE r = "Resuming"
      <4>1. /\ Sound(p, r, o, p, "Retiring", "ResumeRecovery")
            /\ Sound(p, r, o, p, "Completing", "ResumeRecovery")
        BY <2>5, <3>2, <3>7 DEF Sound
      <4> QED  BY <3>1, <3>7, <4>1, <1>DecisionReasoned DEF DecideRecovery
    <3>8. CASE r = "Completing"
      <4>1. CASE o.RecoveryUnlockObserved
        <5>1. Sound(p, r, o, p, "Recovered", "Wait")
          BY <3>8, <4>1 DEF Sound
        <5> QED  BY <3>1, <3>8, <4>1, <5>1, <1>DecisionReasoned DEF DecideRecovery
      <4>2. CASE ~o.RecoveryUnlockObserved
        <5>1. Sound(p, r, o, p, "Recovered", "CompleteRecovery")
          BY <2>5, <3>2, <3>8 DEF Sound
        <5> QED  BY <3>1, <3>8, <4>2, <5>1, <1>DecisionReasoned DEF DecideRecovery
      <4> QED  BY <4>1, <4>2
    <3> QED  BY <2>5, <3>3, <3>4, <3>5, <3>6, <3>7, <3>8
  <2> QED  BY <2>3, <2>4, <2>5
(* A guard of execution passes a decision on or replaces it by Wait,        *)
(* MarkBlocked or EnsurePlacement.                                          *)
<1>GuardsReasoned.
  ASSUME NEW p \in Executing, NEW o, NEW rest, Reasoned(p, "none", o, rest)
  PROVE  /\ Reasoned(p, "none", o, DestinationGuard(p, o, rest))
         /\ Reasoned(p, "none", o, PlacementGuard(p, o, rest))
         /\ Reasoned(p, "none", o, ConsumerGuard(p, o, rest))
         /\ Reasoned(p, "none", o, AuthorityGuard(p, o, rest))
  <2> USE <1>GuardsReasoned
  <2>1. /\ p \in PhaseNames \ {"Canceling", "Cancelled", "Succeeded", "Blocked"}
        /\ p \notin {"Pending", "Preparing"}
    BY DEF Executing, PhaseNames
  <2>2. Reasoned(p, "none", o, BlockedWith(p, o))
    BY <2>1, <1>BlockedWithReasoned
  <2>3. Reasoned(p, "none", o, Stay(p, "Wait")) /\ Reasoned(p, "none", o, Stay(p, "EnsurePlacement"))
    BY <2>1, <1>StayReasoned
  <2> QED
    BY <2>2, <2>3 DEF DestinationGuard, PlacementGuard, ConsumerGuard, AuthorityGuard
(* A transition between execution phases whose action says nothing.         *)
<1>ForwardReasoned.
  ASSUME NEW p \in Executing, NEW o, NEW q \in Executing,
         NEW a \in {"Wait", "EnsurePlacement", "DeletePlacement", "ReleasePlacement"},
         q \in Committed => p \in Committed, q # "Promoting"
  PROVE  Reasoned(p, "none", o, Transition(p, q, a))
  <2> USE <1>ForwardReasoned
  <2>1. Sound(p, "none", o, q, "none", a)
    BY DEF Sound, PhaseReason, RecoveryReason, ActionReason, RecoveryActionReason,
           PhaseNames, RecoveryPhases, Effects, PersistOnly, Committed, Executing
  <2> QED  BY <2>1, <1>TransitionReasoned
(* The waiting phases of execution are reasoned.                            *)
<1>WaitingReasoned.
  ASSUME NEW o
  PROVE  /\ LET p == "WaitingForUnpublish"
            IN Reasoned(p, "none", o, DecideWaitingForUnpublish(p, o))
         /\ LET p == "WaitingForReplacement"
            IN Reasoned(p, "none", o, DecideWaitingForReplacement(p, o))
         /\ LET p == "WaitingForDestination"
            IN Reasoned(p, "none", o, DecideWaitingForDestination(p, o))
         /\ LET p == "WaitingForCapacity"
            IN Reasoned(p, "none", o, DecideWaitingForCapacity(p, o))
  <2> USE <1>WaitingReasoned
  <2>1. \A p \in {"WaitingForUnpublish", "WaitingForReplacement", "WaitingForDestination",
                  "WaitingForCapacity"} :
          /\ p \in Executing /\ p \notin Committed
          /\ p \in PhaseNames \ {"Canceling", "Cancelled", "Succeeded", "Blocked"}
          /\ p \notin {"Pending", "Preparing"} /\ p # "Promoting"
    BY DEF Executing, PhaseNames, Committed
  <2>2. LET p == "WaitingForUnpublish"
        IN Reasoned(p, "none", o, DecideWaitingForUnpublish(p, o))
    BY <2>1, <1>ForwardReasoned DEF DecideWaitingForUnpublish
  <2>3. LET p == "WaitingForReplacement"
        IN Reasoned(p, "none", o, DecideWaitingForReplacement(p, o))
    BY <2>1, <1>ForwardReasoned, <1>StayReasoned, <1>BlockedWithReasoned
      DEF DecideWaitingForReplacement
  <2>4. LET p == "WaitingForDestination"
        IN Reasoned(p, "none", o, DecideWaitingForDestination(p, o))
    BY <2>1, <1>ForwardReasoned, <1>StayReasoned, <1>BlockedWithReasoned
      DEF DecideWaitingForDestination
  <2>5. LET p == "WaitingForCapacity"
        IN Reasoned(p, "none", o, DecideWaitingForCapacity(p, o))
    <3> DEFINE p == "WaitingForCapacity"
    <3>1. /\ Sound(p, "none", o, "Copying", "none", "EnsureCopy")
          /\ Sound(p, "none", o, p, "none", "EnsureCapacity")
      BY DEF Sound, PhaseReason, RecoveryReason, ActionReason, RecoveryActionReason,
             PhaseNames, RecoveryPhases, Effects, PersistOnly, Committed
    <3>2. /\ Reasoned(p, "none", o, Transition(p, "Copying", "EnsureCopy"))
          /\ Reasoned(p, "none", o, Stay(p, "EnsureCapacity"))
      BY <3>1, <1>TransitionReasoned DEF Stay
    <3> QED  BY <2>1, <3>2, <1>GuardsReasoned DEF DecideWaitingForCapacity
  <2> QED  BY <2>2, <2>3, <2>4, <2>5
(* The phases that copy, promote and commit are reasoned.                   *)
<1>DiskWorkReasoned.
  ASSUME NEW o
  PROVE  /\ LET p == "Copying" IN Reasoned(p, "none", o, DecideCopying(p, o))
         /\ LET p == "Promoting" IN Reasoned(p, "none", o, DecidePromoting(p, o))
         /\ LET p == "Committing" IN Reasoned(p, "none", o, DecideCommitting(p, o))
  <2> USE <1>DiskWorkReasoned
  <2> USE DEF Sound, PhaseReason, RecoveryReason, ActionReason, RecoveryActionReason,
              PhaseNames, RecoveryPhases, Effects, PersistOnly, Committed
  <2>1. LET p == "Copying" IN Reasoned(p, "none", o, DecideCopying(p, o))
    <3> DEFINE p == "Copying"
    <3>1. /\ o.CopyComplete => Sound(p, "none", o, "Promoting", "none", "EnsurePromotion")
          /\ Sound(p, "none", o, p, "none", "EnsureCopy")
      OBVIOUS
    <3> HIDE DEF Sound
    <3>2. /\ p \in PhaseNames \ {"Canceling", "Cancelled", "Succeeded", "Blocked"}
          /\ p \notin {"Pending", "Preparing"} /\ p \in Executing
      BY DEF Executing
    <3>3. /\ o.CopyComplete => Reasoned(p, "none", o, Transition(p, "Promoting", "EnsurePromotion"))
          /\ Reasoned(p, "none", o, Stay(p, "EnsureCopy"))
      BY <3>1, <1>TransitionReasoned DEF Stay
    <3> QED  BY <3>2, <3>3, <1>GuardsReasoned, <1>BlockedWithReasoned DEF DecideCopying
  <2>2. LET p == "Promoting" IN Reasoned(p, "none", o, DecidePromoting(p, o))
    <3> DEFINE p == "Promoting"
    <3>1. /\ o.OwnerCommitted \/ o.PromotionComplete =>
                Sound(p, "none", o, "Committing", "none", "CommitOwner")
          /\ Sound(p, "none", o, p, "none", "EnsurePromotion")
      OBVIOUS
    <3> HIDE DEF Sound
    <3>2. /\ p \in PhaseNames \ {"Canceling", "Cancelled", "Succeeded", "Blocked"}
          /\ p \notin {"Pending", "Preparing"} /\ p \in Executing
      BY DEF Executing
    <3>3. /\ o.OwnerCommitted \/ o.PromotionComplete =>
                Reasoned(p, "none", o, Transition(p, "Committing", "CommitOwner"))
          /\ Reasoned(p, "none", o, Stay(p, "EnsurePromotion"))
      BY <3>1, <1>TransitionReasoned DEF Stay
    <3> QED  BY <3>2, <3>3, <1>GuardsReasoned, <1>BlockedWithReasoned DEF DecidePromoting
  <2>3. LET p == "Committing" IN Reasoned(p, "none", o, DecideCommitting(p, o))
    <3> DEFINE p == "Committing"
    <3>1. Sound(p, "none", o, p, "none", "CommitOwner")
      OBVIOUS
    <3> HIDE DEF Sound
    <3>2. p \in PhaseNames /\ p \in Executing /\ p \in Committed
          /\ "ReleasingDestination" \in Executing
      BY DEF Executing
    <3>3. /\ Reasoned(p, "none", o, Stay(p, "CommitOwner"))
          /\ Reasoned(p, "none", o, Transition(p, "ReleasingDestination", "DeletePlacement"))
      BY <3>1, <3>2, <1>TransitionReasoned, <1>ForwardReasoned DEF Stay
    <3> QED  BY <3>2, <3>3, <1>GuardsReasoned, <1>StayReasoned DEF DecideCommitting
  <2> QED  BY <2>1, <2>2, <2>3
(* The phases after the commit are reasoned.                                *)
<1>HandoverReasoned.
  ASSUME NEW o
  PROVE  /\ LET p == "ReleasingDestination"
            IN Reasoned(p, "none", o, DecideReleasingDestination(p, o))
         /\ LET p == "WaitingForDestinationPublish"
            IN Reasoned(p, "none", o, DecideWaitingForDestinationPublish(p, o))
         /\ LET p == "CleaningSource" IN Reasoned(p, "none", o, DecideCleaningSource(p, o))
         /\ LET p == "Completing" IN Reasoned(p, "none", o, DecideCompleting(p, o))
  <2> USE <1>HandoverReasoned
  <2> USE DEF Sound, PhaseReason, RecoveryReason, ActionReason, RecoveryActionReason,
              PhaseNames, RecoveryPhases, Effects, PersistOnly, Committed
  <2>1. LET p == "ReleasingDestination"
        IN Reasoned(p, "none", o, DecideReleasingDestination(p, o))
    <3> DEFINE p == "ReleasingDestination"
    <3>1. /\ p \in PhaseNames /\ p \in Executing /\ p \in Committed
          /\ "WaitingForDestinationPublish" \in Executing
      BY DEF Executing
    <3> QED  BY <3>1, <1>ForwardReasoned, <1>StayReasoned DEF DecideReleasingDestination
  <2>2. LET p == "WaitingForDestinationPublish"
        IN Reasoned(p, "none", o, DecideWaitingForDestinationPublish(p, o))
    <3> DEFINE p == "WaitingForDestinationPublish"
    <3>1. Sound(p, "none", o, "CleaningSource", "none", "EnsureCleanup")
      OBVIOUS
    <3> HIDE DEF Sound
    <3>2. /\ p \in PhaseNames \ {"Canceling", "Cancelled", "Succeeded", "Blocked"}
          /\ p \notin {"Pending", "Preparing"}
      OBVIOUS
    <3> QED
      BY <3>1, <3>2, <1>TransitionReasoned, <1>StayReasoned, <1>BlockedWithReasoned
      DEF DecideWaitingForDestinationPublish
  <2>3. LET p == "CleaningSource" IN Reasoned(p, "none", o, DecideCleaningSource(p, o))
    <3> DEFINE p == "CleaningSource"
    <3>1. /\ Sound(p, "none", o, "Completing", "none", "ConfirmCleanup")
          /\ Sound(p, "none", o, p, "none", "EnsureCleanup")
      OBVIOUS
    <3> HIDE DEF Sound
    <3>2. /\ p \in PhaseNames \ {"Canceling", "Cancelled", "Succeeded", "Blocked"}
          /\ p \notin {"Pending", "Preparing"}
      OBVIOUS
    <3>3. Reasoned(p, "none", o, Stay(p, "EnsureCleanup"))
      BY <3>1, <1>TransitionReasoned DEF Stay
    <3> QED
      BY <3>1, <3>2, <3>3, <1>TransitionReasoned, <1>StayReasoned, <1>BlockedWithReasoned
      DEF DecideCleaningSource
  <2>4. LET p == "Completing" IN Reasoned(p, "none", o, DecideCompleting(p, o))
    <3> DEFINE p == "Completing"
    <3>1. Sound(p, "none", o, "Succeeded", "none", "MarkSucceeded") /\ p \in PhaseNames
      OBVIOUS
    <3> HIDE DEF Sound
    <3> QED  BY <3>1, <1>TransitionReasoned, <1>StayReasoned DEF DecideCompleting
  <2> QED  BY <2>1, <2>2, <2>3, <2>4
(* The rules of execution are reasoned.                                     *)
<1>ExecutionReasoned.
  ASSUME NEW p \in Executing \cup {"Completing"}, NEW o
  PROVE  Reasoned(p, "none", o, DecideExecution(p, o))
  <2> USE <1>ExecutionReasoned
  <2>1. CASE p = "Completing"
    BY <2>1, <1>HandoverReasoned DEF DecideExecution
  <2>2. CASE p # "Completing"
    <3> DEFINE rest ==
          CASE p = "WaitingForUnpublish" -> DecideWaitingForUnpublish(p, o)
            [] p = "WaitingForReplacement" -> DecideWaitingForReplacement(p, o)
            [] p = "WaitingForDestination" -> DecideWaitingForDestination(p, o)
            [] p = "WaitingForCapacity" -> DecideWaitingForCapacity(p, o)
            [] p = "Copying" -> DecideCopying(p, o)
            [] p = "Promoting" -> DecidePromoting(p, o)
            [] p = "Committing" -> DecideCommitting(p, o)
            [] p = "ReleasingDestination" -> DecideReleasingDestination(p, o)
            [] p = "WaitingForDestinationPublish" ->
                  DecideWaitingForDestinationPublish(p, o)
            [] p = "CleaningSource" -> DecideCleaningSource(p, o)
    <3>1. Reasoned(p, "none", o, rest)
      BY <2>2, <1>WaitingReasoned, <1>DiskWorkReasoned, <1>HandoverReasoned DEF Executing
    <3>2. DecideExecution(p, o) = AuthorityGuard(p, o, rest)
      BY <2>2, Zenon DEF DecideExecution
    <3> HIDE DEF rest
    <3> QED  BY <2>2, <3>1, <3>2, <1>GuardsReasoned
  <2> QED  BY <2>1, <2>2
(* The decision itself.                                                     *)
<1> SUFFICES ASSUME NEW p \in PhaseNames, NEW r \in RecoveryPhases, NEW o
             PROVE  Reasoned(p, r, o, Decide(p, r, o))
  OBVIOUS
<1>1. CASE ~ValidState(p, r, o)
  BY <1>1 DEF Decide, Reasoned
<1>2. CASE ValidState(p, r, o)
  <2>1. Decide(p, r, o) = DecideLifecycle(p, r, o)
    BY <1>2 DEF Decide
  <2>2. /\ r # "none" => p = "Blocked"
        /\ p \in {"Pending", "Preparing", "StartingDisruption", "Canceling", "Cancelled"}
              => BeforeExecutionApproval(o)
    BY <1>2 DEF ValidState
  <2>3. CASE CanCancelRetiredPreparation(p, r, o)
    <3>1. /\ r = "none" /\ p \in PhaseNames \ {"Canceling", "Cancelled", "Succeeded"}
          /\ BeforeExecutionApproval(o)
          /\ DecideLifecycle(p, r, o) = CancelRetiredPreparation(p, o)
      BY <2>3 DEF CanCancelRetiredPreparation, DecideLifecycle
    <3>2. Sound(p, "none", o, "Canceling", "none", "Wait")
      BY <3>1 DEF Sound, PhaseReason, RecoveryReason, ActionReason,
             RecoveryActionReason, PhaseNames, RecoveryPhases, Effects, PersistOnly, Committed
    <3>3. Reasoned(p, r, o, CancelRetiredPreparation(p, o))
      BY <3>1, <3>2, <1>TransitionReasoned DEF CancelRetiredPreparation, Reasoned
    <3> QED  BY <2>1, <3>1, <3>3
  <2>4. CASE ~CanCancelRetiredPreparation(p, r, o) /\ CanRequestSettlement(p, r, o)
    <3>1. DecideLifecycle(p, r, o) = Decision("Blocked", "none", "RequestSettlement")
      BY <2>4 DEF DecideLifecycle
    <3>2. Sound(p, r, o, "Blocked", "none", "RequestSettlement")
      BY <2>4 DEF CanRequestSettlement, Sound, PhaseReason, RecoveryReason,
             ActionReason, RecoveryActionReason, PhaseNames, RecoveryPhases, Effects, Committed
    <3> QED  BY <2>1, <3>1, <3>2, <1>DecisionReasoned
  <2>5. CASE ~CanCancelRetiredPreparation(p, r, o) /\ ~CanRequestSettlement(p, r, o)
    <3>1. CASE p = "Succeeded"
      <4>1. DecideLifecycle(p, r, o) = Decision(p, r, "FinalizeHistory") /\ r = "none"
        BY <2>2, <2>5, <3>1 DEF DecideLifecycle
      <4>2. Sound(p, "none", o, p, "none", "FinalizeHistory")
        BY <3>1 DEF Sound, PhaseReason, RecoveryReason,
             ActionReason, RecoveryActionReason, PhaseNames, RecoveryPhases, Effects, Committed
      <4> QED  BY <2>1, <4>1, <4>2, <1>DecisionReasoned
    <3>2. CASE p \in {"Canceling", "Cancelled"}
      <4>1. DecideLifecycle(p, r, o) = DecideCancellation(p, o) /\ r = "none"
        BY <2>2, <2>5, <3>2 DEF DecideLifecycle
      <4> QED  BY <2>1, <2>2, <3>2, <4>1, <1>CancellationReasoned
    <3>3. CASE p = "Blocked"
      <4>1. DecideLifecycle(p, r, o) = DecideBlocked(r, o)
        BY <2>5, <3>3 DEF DecideLifecycle
      <4> QED  BY <2>1, <2>5, <3>3, <4>1, <1>BlockedReasoned
    <3>4. CASE p \notin {"Succeeded", "Canceling", "Cancelled", "Blocked"}
      <4>1. r = "none" /\ p \in PhaseNames \ {"Canceling", "Cancelled", "Succeeded", "Blocked"}
        BY <2>2, <3>4
      <4>2. CASE BeforeExecutionApproval(o) /\ o.PreparationChanged
        <5>1. DecideLifecycle(p, r, o) = PreparationChanged(p, o)
          BY <2>5, <3>4, <4>2 DEF DecideLifecycle
        <5> QED  BY <2>1, <4>1, <4>2, <5>1, <1>ChangedReasoned
      <4>3. CASE ~(BeforeExecutionApproval(o) /\ o.PreparationChanged)
        <5>1. CASE p \in {"Pending", "Preparing"}
          <6>1. DecideLifecycle(p, r, o) = DecidePreparation(p, o)
            BY <2>5, <4>3, <5>1 DEF DecideLifecycle
          <6> QED  BY <2>1, <2>2, <4>1, <5>1, <6>1, <1>PreparationReasoned
        <5>2. CASE p = "StartingDisruption"
          <6>1. DecideLifecycle(p, r, o) = DecideStartingDisruption(p, o)
            BY <2>5, <4>3, <5>2 DEF DecideLifecycle
          <6> QED  BY <2>1, <2>2, <4>1, <5>2, <6>1, <1>StartingReasoned
        <5>3. CASE p \in Executing \cup {"Completing"}
          <6>1. DecideLifecycle(p, r, o) = DecideExecution(p, o)
            BY <2>5, <4>3, <5>3 DEF DecideLifecycle, Executing
          <6> QED  BY <2>1, <4>1, <5>3, <6>1, <1>ExecutionReasoned
        <5> QED  BY <4>1, <5>1, <5>2, <5>3 DEF PhaseNames, Executing
      <4> QED  BY <4>2, <4>3
    <3> QED  BY <3>1, <3>2, <3>3, <3>4
  <2> QED  BY <2>3, <2>4, <2>5
<1> QED  BY <1>1, <1>2

(* Every decision, and when a recovery phase may be recorded.               *)
LEMMA DecisionsKeepPlacement ==
  \A p \in PhaseNames, r \in RecoveryPhases : \A o :
      LET d == Decide(p, r, o)
      IN /\ PlacementReasoned(p, o, d)
         /\ d # Refused /\ r # "none" => p = "Blocked"

(* Decisions that leave the reservation and its replacement alone, and end  *)
(* no phase that waits for it.                                              *)
<1>PlainPlacement.
  ASSUME NEW p, NEW o, NEW q, NEW s, NEW a, q \in Unreserved => p \in Unreserved,
         a \notin Reserving \cup {"ReleasePlacement"}
  PROVE  /\ PlacementReasoned(p, o, Decision(q, s, a))
         /\ PlacementReasoned(p, o, Transition(p, q, a))
  <2> USE <1>PlainPlacement
  <2>1. PlacementSound(p, o, q, a)
    BY DEF PlacementSound, Reserving
  <2>2. Decision(q, s, a).phase = q /\ Decision(q, s, a).action = a
        /\ Decision(q, "none", a).phase = q /\ Decision(q, "none", a).action = a
    BY DEF Decision
  <2> QED  BY <2>1, <2>2 DEF PlacementReasoned, Transition
(* Waiting, stopping and refusing are such decisions.                       *)
<1>BlockedPlacement.
  ASSUME NEW p, NEW o
  PROVE  /\ PlacementReasoned(p, o, BlockedWith(p, o))
         /\ PlacementReasoned(p, o, PreparationChanged(p, o))
         /\ PlacementReasoned(p, o, Stay(p, "Wait"))
         /\ PlacementReasoned(p, o, Refused)
  <2> USE <1>BlockedPlacement
  <2>1. /\ PlacementReasoned(p, o, Decision("Canceling", "none", "Wait"))
        /\ PlacementReasoned(p, o, Decision("Blocked", "none", "MarkBlocked"))
        /\ PlacementReasoned(p, o, Transition(p, p, "Wait"))
    BY <1>PlainPlacement DEF Unreserved, Reserving
  <2>2. PlacementReasoned(p, o, Refused)
    BY DEF PlacementReasoned
  <2> QED  BY <2>1, <2>2 DEF BlockedWith, PreparationChanged, Stay
(* The reservation is asked for only in phases of execution before it is    *)
(* released.                                                                *)
<1>EnsuredPlacement.
  ASSUME NEW p \in Executing \ Unreserved, NEW o, NEW q \in Executing \ Unreserved
  PROVE  PlacementReasoned(p, o, Transition(p, q, "EnsurePlacement"))
  <2> USE <1>EnsuredPlacement
  <2>1. PlacementSound(p, o, q, "EnsurePlacement")
    BY DEF PlacementSound, Reserving, Executing
  <2>2. LET d == Decision(q, "none", "EnsurePlacement")
        IN d.phase = q /\ d.action = "EnsurePlacement"
    BY DEF Decision
  <2> QED  BY <2>1, <2>2 DEF PlacementReasoned, Transition
(* Preparation reserves for a protected Move with a plan.                   *)
<1>PreparationPlacement.
  ASSUME NEW p \in {"Pending", "Preparing"}, NEW o
  PROVE  PlacementReasoned(p, o, DecidePreparation(p, o))
  <2> USE <1>PreparationPlacement
  <2>1. /\ PlacementReasoned(p, o, Stay(p, "ProtectMove"))
        /\ PlacementReasoned(p, o, Stay(p, "DeletePlacement"))
        /\ PlacementReasoned(p, o, Stay(p, "ClaimSource"))
        /\ PlacementReasoned(p, o, Transition(p, "Preparing", "InitializePreparation"))
        /\ PlacementReasoned(p, o, Transition(p, "Preparing", "Wait"))
        /\ PlacementReasoned(p, o, Transition(p, "StartingDisruption", "Wait"))
    BY <1>PlainPlacement DEF Stay, Unreserved, Reserving
  <2>2. ASSUME o.ProtectionPresent, o.SourcePlanRecorded
        PROVE  PlacementReasoned(p, o, Stay(p, "ReservePreparation"))
    <3>1. PlacementSound(p, o, p, "ReservePreparation")
      BY <2>2 DEF PlacementSound, Unreserved, Reserving
    <3>2. LET d == Decision(p, "none", "ReservePreparation")
          IN d.phase = p /\ d.action = "ReservePreparation"
      BY DEF Decision
    <3> QED  BY <3>1, <3>2 DEF PlacementReasoned, Stay, Transition
  <2> QED  BY <2>1, <2>2, <1>BlockedPlacement DEF DecidePreparation
(* A cancelled Move has seen its reservation gone.                          *)
<1>CancellationPlacement.
  ASSUME NEW p \in {"Canceling", "Cancelled"}, NEW o
  PROVE  PlacementReasoned(p, o, DecideCancellation(p, o))
  <2> USE <1>CancellationPlacement
  <2>1. \A a \in {"ClaimSource", "RestoreSource", "DeletePlacement", "ReleaseSource",
                  "FinalizeHistory"} : PlacementReasoned(p, o, Decision(p, "none", a))
    BY <1>PlainPlacement DEF Reserving
  <2>2. ASSUME o.PlacementAbsent, p = "Canceling"
        PROVE  PlacementReasoned(p, o, Transition(p, "Cancelled", "ReleasePreparation"))
    <3>1. PlacementSound(p, o, "Cancelled", "ReleasePreparation")
      BY <2>2 DEF PlacementSound, Unreserved, Reserving
    <3>2. LET d == Decision("Cancelled", "none", "ReleasePreparation")
          IN d.phase = "Cancelled" /\ d.action = "ReleasePreparation"
      BY DEF Decision
    <3> QED  BY <3>1, <3>2 DEF PlacementReasoned, Transition
  <2> QED  BY <2>1, <2>2, <1>BlockedPlacement DEF DecideCancellation
(* A blocked Move stays blocked.                                            *)
<1>RecoveryPlacement.
  ASSUME NEW r \in RecoveryPhases, NEW o
  PROVE  PlacementReasoned("Blocked", o, DecideBlocked(r, o))
  <2> USE <1>RecoveryPlacement
  <2>1. \A s, a : a \notin Reserving \cup {"ReleasePlacement"} =>
          PlacementReasoned("Blocked", o, Decision("Blocked", s, a))
    BY <1>PlainPlacement DEF Unreserved
  <2>2. r # "Recovered" => PlacementReasoned("Blocked", o, DecideRecovery(r, o))
    <3>1. r # "Recovered" => \E s : \E a \in {"BeginRecovery", "QuiesceRecovery",
             "VerifyRecovery", "RetireRecovery", "ResumeRecovery", "Wait", "CompleteRecovery"} :
             DecideRecovery(r, o) = Decision("Blocked", s, a)
      BY DEF DecideRecovery, RecoveryPhases
    <3> QED  BY <2>1, <3>1 DEF Reserving
  <2> QED  BY <2>1, <2>2 DEF DecideBlocked, Reserving
(* Execution lets the replacement go only after it has seen the reservation *)
(* gone.                                                                    *)
<1>ExecutionPlacement.
  ASSUME NEW p \in Executing \cup {"Completing"}, NEW o,
         ~(o.WorkloadRetired /\ ~BeforeExecutionApproval(o))
  PROVE  PlacementReasoned(p, o, DecideExecution(p, o))
  <2> USE <1>ExecutionPlacement
  <2> DEFINE Placed(d) == PlacementReasoned(p, o, d)
  <2>1. Placed(BlockedWith(p, o)) /\ Placed(Stay(p, "Wait"))
    BY <1>BlockedPlacement
  <2>2. \A rest : Placed(rest) =>
          Placed(DestinationGuard(p, o, rest)) /\ Placed(ConsumerGuard(p, o, rest))
    BY <2>1 DEF DestinationGuard, ConsumerGuard
  <2>3. \A rest : (o.SourceAuthorityInvalid \/ Placed(rest)) => Placed(AuthorityGuard(p, o, rest))
    BY <2>1 DEF AuthorityGuard
  <2>4. \A q, a : /\ q \in Unreserved => p \in Unreserved
                  /\ a \notin Reserving \cup {"ReleasePlacement"}
                  => Placed(Transition(p, q, a))
    BY <1>PlainPlacement, Zenon
  <2>5. p \notin Unreserved => \A q \in Executing \ Unreserved :
                                  Placed(Transition(p, q, "EnsurePlacement"))
    BY <1>EnsuredPlacement DEF Unreserved
  <2>6. \A rest : p \notin Unreserved /\ Placed(rest) => Placed(PlacementGuard(p, o, rest))
    BY <2>5 DEF PlacementGuard, Stay, Unreserved
  <2>7. ASSUME p \in Unreserved \/ (p = "ReleasingDestination" /\ ~o.PlacementExists
                                      /\ ~o.SourceAuthorityInvalid),
               NEW q \in Unreserved, NEW a \in {"Wait", "ReleasePlacement"}
        PROVE  Placed(Transition(p, q, a))
    <3>1. PlacementSound(p, o, q, a)
      BY <2>7 DEF PlacementSound, Reserving
    <3>2. Decision(q, "none", a).phase = q /\ Decision(q, "none", a).action = a
      BY DEF Decision
    <3> QED  BY <3>1, <3>2 DEF PlacementReasoned, Transition
  <2> SUFFICES Placed(DecideExecution(p, o))
    OBVIOUS
  <2> HIDE DEF Placed
  <2>8. CASE p \in {"WaitingForUnpublish", "WaitingForReplacement", "WaitingForDestination"}
    <3>1. /\ p \notin Unreserved
          /\ p \in Executing \ Unreserved
          /\ "WaitingForDestination" \in Executing \ Unreserved
          /\ "WaitingForReplacement" \notin Unreserved /\ "WaitingForCapacity" \notin Unreserved
          /\ "Wait" \notin Reserving \cup {"ReleasePlacement"}
      BY <2>8 DEF Unreserved, Executing, Reserving
    <3>2. Placed(DecideWaitingForUnpublish(p, o))
      BY <2>4, <3>1 DEF DecideWaitingForUnpublish
    <3>3. Placed(DecideWaitingForReplacement(p, o))
      BY <2>1, <2>5, <3>1 DEF DecideWaitingForReplacement
    <3>4. Placed(DecideWaitingForDestination(p, o))
      BY <2>1, <2>4, <2>5, <3>1 DEF DecideWaitingForDestination, Stay
    <3> QED  BY <2>3, <2>8, <3>2, <3>3, <3>4 DEF DecideExecution
  <2>9. CASE p \in {"WaitingForCapacity", "Copying", "Promoting", "Committing"}
    <3>1. /\ p \notin Unreserved
          /\ \A q \in {"Copying", "Promoting", "Committing", "ReleasingDestination"} :
                q \notin Unreserved
          /\ \A a \in {"EnsureCopy", "EnsureCapacity", "EnsurePromotion", "CommitOwner",
                       "DeletePlacement"} : a \notin Reserving \cup {"ReleasePlacement"}
      BY <2>9 DEF Unreserved, Reserving
    <3>2. Placed(DecideWaitingForCapacity(p, o))
      BY <2>2, <2>4, <3>1 DEF DecideWaitingForCapacity, Stay
    <3>3. Placed(DecideCopying(p, o))
      BY <2>1, <2>2, <2>4, <2>6, <3>1 DEF DecideCopying, Stay
    <3>4. Placed(DecidePromoting(p, o))
      BY <2>1, <2>2, <2>4, <2>6, <3>1 DEF DecidePromoting, Stay
    <3>5. Placed(DecideCommitting(p, o))
      BY <2>1, <2>2, <2>4, <2>6, <3>1 DEF DecideCommitting, Stay
    <3> QED  BY <2>3, <2>9, <3>2, <3>3, <3>4, <3>5 DEF DecideExecution
  <2>10. CASE p = "ReleasingDestination"
    <3>1. /\ "WaitingForDestinationPublish" \in Unreserved
          /\ "DeletePlacement" \notin Reserving \cup {"ReleasePlacement"}
      BY DEF Unreserved, Reserving
    <3>2. Placed(Stay(p, "DeletePlacement"))
      BY <2>4, <3>1 DEF Stay
    <3>3. ~o.SourceAuthorityInvalid => Placed(DecideReleasingDestination(p, o))
      BY <2>1, <2>7, <2>10, <3>1, <3>2 DEF DecideReleasingDestination
    <3> QED  BY <2>3, <2>10, <3>3 DEF DecideExecution
  <2>11. CASE p \in {"WaitingForDestinationPublish", "CleaningSource", "Completing"}
    <3>1. /\ p \in Unreserved
          /\ \A a \in {"EnsureCleanup", "ConfirmCleanup", "MarkSucceeded"} :
                a \notin Reserving \cup {"ReleasePlacement"}
      BY <2>11 DEF Unreserved, Reserving
    <3>2. Placed(Stay(p, "ReleasePlacement"))
      BY <2>7, <3>1 DEF Stay
    <3>3. Placed(DecideWaitingForDestinationPublish(p, o))
      BY <2>1, <2>4, <3>1, <3>2 DEF DecideWaitingForDestinationPublish
    <3>4. Placed(DecideCleaningSource(p, o))
      BY <2>1, <2>4, <3>1, <3>2 DEF DecideCleaningSource, Stay
    <3>5. Placed(DecideCompleting(p, o))
      BY <2>1, <2>4, <3>1 DEF DecideCompleting
    <3> QED  BY <2>3, <2>11, <3>3, <3>4, <3>5 DEF DecideExecution
  <2> QED  BY <2>8, <2>9, <2>10, <2>11 DEF Executing
(* The decision itself.                                                     *)
<1> SUFFICES ASSUME NEW p \in PhaseNames, NEW r \in RecoveryPhases, NEW o
             PROVE  LET d == Decide(p, r, o)
                    IN /\ PlacementReasoned(p, o, d)
                       /\ d # Refused /\ r # "none" => p = "Blocked"
  OBVIOUS
<1>1. CASE ~ValidState(p, r, o)
  BY <1>1, <1>BlockedPlacement DEF Decide
<1>2. CASE ValidState(p, r, o)
  <2>1. Decide(p, r, o) = DecideLifecycle(p, r, o) /\ (r # "none" => p = "Blocked")
    BY <1>2 DEF Decide, ValidState
  <2>2. /\ PlacementReasoned(p, o, CancelRetiredPreparation(p, o))
        /\ PlacementReasoned(p, o, Decision("Blocked", "none", "RequestSettlement"))
        /\ PlacementReasoned(p, o, Decision(p, r, "FinalizeHistory"))
    BY <1>PlainPlacement, <1>BlockedPlacement
    DEF CancelRetiredPreparation, Unreserved, Reserving
  <2>3. CASE CanCancelRetiredPreparation(p, r, o) \/ CanRequestSettlement(p, r, o)
    BY <2>1, <2>2, <2>3 DEF DecideLifecycle
  <2>4. CASE ~CanCancelRetiredPreparation(p, r, o) /\ ~CanRequestSettlement(p, r, o)
    <3>1. CASE p = "Succeeded"
      BY <2>1, <2>2, <2>4, <3>1 DEF DecideLifecycle
    <3>2. CASE p \in {"Canceling", "Cancelled"}
      BY <2>1, <2>4, <3>2, <1>CancellationPlacement DEF DecideLifecycle
    <3>3. CASE p = "Blocked"
      BY <2>1, <2>4, <3>3, <1>RecoveryPlacement DEF DecideLifecycle
    <3>4. CASE p \notin {"Succeeded", "Canceling", "Cancelled", "Blocked"}
      <4>1. /\ PlacementReasoned(p, o, PreparationChanged(p, o))
            /\ PlacementReasoned(p, o, DecideStartingDisruption(p, o))
        <5>1. PlacementReasoned(p, o, Transition(p, "WaitingForUnpublish", "StartDisruption"))
          BY <1>PlainPlacement DEF Unreserved, Reserving
        <5> QED  BY <5>1, <1>BlockedPlacement DEF DecideStartingDisruption
      <4>2. p \in {"Pending", "Preparing"} => PlacementReasoned(p, o, DecidePreparation(p, o))
        BY <1>PreparationPlacement
      <4>3. ~(o.WorkloadRetired /\ ~BeforeExecutionApproval(o))
        BY <2>1, <2>4, <3>4 DEF CanRequestSettlement
      <4>4. p \notin {"Pending", "Preparing", "StartingDisruption"} =>
              PlacementReasoned(p, o, DecideExecution(p, o))
        BY <3>4, <4>3, <1>ExecutionPlacement DEF PhaseNames, Executing
      <4> QED  BY <2>1, <2>4, <3>4, <4>1, <4>2, <4>4 DEF DecideLifecycle
    <3> QED  BY <3>1, <3>2, <3>3, <3>4
  <2> QED  BY <2>3, <2>4
<1> QED  BY <1>1, <1>2

-----------------------------------------------------------------------------
(* Observations.                                                            *)

(* No observation reports what is not there.                                *)
LEMMA ObservationsAreTruthful ==
  \A t : Truthful(ObserveLifecycle(t))

(* An observation that finds nothing, and one that only finds a change.     *)
<1>NothingWitnessed.
  /\ Witnessed(NoFacts)
  /\ Truthful(FAILED)
  /\ \A f : Witnessed(f) => Truthful(Saw(f)) /\ Truthful(Unread(f))
  <2>1. Witnessed(NoFacts)
    BY DEF Witnessed, NoFacts, FactNames
  <2>2. FAILED.facts = NoFacts /\ FAILED.read = FALSE
    BY DEF FAILED
  <2>3. \A f : /\ Saw(f).facts = f /\ Saw(f).read = TRUE
               /\ Unread(f).facts = f /\ Unread(f).read = FALSE
    BY DEF Saw, Unread
  <2> QED  BY <2>1, <2>2, <2>3, Zenon DEF Truthful
(* Facts that are true stay true when one of them is the report of a        *)
(* change.                                                                  *)
<1>ChangedWitnessed.
  ASSUME NEW f, Witnessed(f), NEW u
  PROVE  Truthful(Changed(f, u))
  <2> USE <1>ChangedWitnessed
  <2> DEFINE g == [f EXCEPT !.PreparationChanged = TRUE, !.PreparationUnavailable = @ \/ u]
  <2>1. Witnessed(g)
    BY Zenon DEF Witnessed, NoFacts, FactNames
  <2> HIDE DEF g
  <2>2. Truthful(Saw(g))
    BY <2>1, <1>NothingWitnessed
  <2> QED  BY <2>2 DEF Changed, g
(* The claim is reported retired only when it is.                           *)
<1>RetirementWitnessed.
  Retired => Truthful(WorkloadRetirement)
  <2> SUFFICES ASSUME Retired PROVE Truthful(WorkloadRetirement)
    OBVIOUS
  <2> DEFINE g == [NoFacts EXCEPT !.WorkloadRetired = TRUE]
  <2>1. Witnessed(g)
    BY DEF Witnessed, NoFacts, FactNames
  <2> HIDE DEF g
  <2>2. Truthful(Saw(g))
    BY <2>1, <1>NothingWitnessed
  <2> QED  BY <2>2, <1>NothingWitnessed DEF WorkloadRetirement, g
(* What a pass observes of a preparation is true.                           *)
<1>PreparationWitnessed.
  ASSUME NEW t
  PROVE  Truthful(ObservePreparation(t))
  <2> USE <1>PreparationWitnessed
  <2>1. Witnessed(PreparationFacts(t))
    BY ZenonT(30) DEF Witnessed, NoFacts, FactNames, PreparationFacts
  <2>2. \A u : Truthful(Changed(PreparationFacts(t), u))
    BY <2>1, <1>ChangedWitnessed
  <2>3. Truthful(Saw(PreparationFacts(t)))
    BY <2>1, <1>NothingWitnessed
  <2>4. Truthful(ObservePreparationPlan(t))
    <3> DEFINE deferred == ~PreparationFacts(t).SourceHealthy \/ PreparationFacts(t).PreflightDeferred
               g == [PreparationFacts(t) EXCEPT !.PlacementExists =
                       /\ deferred \/ ~PreparationFacts(t).PreconditionsValid
                       /\ placement.state # "none"]
    <3>1. Witnessed(g)
      <4> HIDE DEF deferred
      <4> QED  BY <2>1, Zenon DEF Witnessed, NoFacts, FactNames
    <3>2. Truthful(Saw(g))
      <4> HIDE DEF g
      <4> QED  BY <3>1, <1>NothingWitnessed
    <3>3. Truthful(PlacementVerdict(PreparationFacts(t), t))
      BY <2>2, <2>3, Zenon DEF PlacementVerdict
    <3> QED  BY <2>2, <2>3, <3>2, <3>3, <1>NothingWitnessed, Zenon
      DEF ObservePreparationPlan
  <2>5. Witnessed([NoFacts EXCEPT !.PreparationChanged = TRUE])
    BY DEF Witnessed, NoFacts, FactNames
  <2>6. Truthful(Unread([NoFacts EXCEPT !.PreparationChanged = TRUE]))
    BY <2>5, <1>NothingWitnessed
  <2>7. Truthful(Unread(NoFacts))
    BY <1>NothingWitnessed
  <2> QED
    BY <2>2, <2>4, <2>6, <2>7, <1>NothingWitnessed, <1>RetirementWitnessed, Zenon
      DEF ObservePreparation
(* What a pass observes of an approved Move is true.                        *)
<1>ExecutionWitnessed.
  ASSUME NEW t
  PROVE  Truthful(ObserveExecution(t))
  <2> USE <1>ExecutionWitnessed
  <2> DEFINE base == [NoFacts EXCEPT !.OwnerCommitted = CommittedDestination(vol, FALSE),
                                     !.SourceHealthy = t # "sick"]
  <2>1. Witnessed(base)
    BY Zenon DEF Witnessed, NoFacts, FactNames, CommittedDestination
  <2> HIDE DEF base
  <2>2. Witnessed(ExecutionFacts(t))
    <3> USE <2>1 DEF Witnessed, NoFacts, FactNames
    <3>1. Witnessed([base EXCEPT !.SourceAuthorityInvalid = TRUE])
      BY Zenon
    <3>2. Witnessed([base EXCEPT !.PreflightDeferred = TRUE, !.ConsumersAmbiguous = TRUE])
      BY Zenon
    <3> DEFINE
          cleaning == mv.phase \in {"WaitingForDestinationPublish", "CleaningSource"}
          misplaced == pods["new"].state = "bound" /\ pods["new"].node = "src"
          full == [base EXCEPT
              !.ConsumersAmbiguous = t = "ambiguous",
              !.PublishedOnSource = "src" \in vol.published,
              !.CapacityBlocked = mv.reason # "none" /\ ~mv.approved,
              !.ReplacementExists = Replacement(t) # "none",
              !.ReplacementHeld = Replacement(t) = "held",
              !.PlacementExists = placement.state # "none",
              !.DestinationScheduled = placement.state = "scheduled" /\ PlacementIdentity,
              !.DestinationBlocked =
                  misplaced \/ (placement.state # "none" /\ ~PlacementIdentity),
              !.DestinationUnavailable = t = "down",
              !.CopyComplete = jobs.copy.state = "complete",
              !.CopyFailed = jobs.copy.state = "failed",
              !.PromotionComplete = jobs.promote.state = "complete",
              !.PromotionFailed = jobs.promote.state = "failed",
              !.PublishedOnDestination =
                  "dst" \in vol.published /\ pool.inventory.published,
              !.CleanupComplete = cleaning /\ journal.phase = "Completed",
              !.CleanupFailed = cleaning /\ journal.phase = "NeedsReview"]
    <3>3. Witnessed(full)
      <4> HIDE DEF cleaning, misplaced
      <4> QED  BY ZenonT(30)
    <3> HIDE DEF Witnessed, NoFacts, FactNames
    <3>4. \/ ExecutionFacts(t) = [base EXCEPT !.SourceAuthorityInvalid = TRUE]
          \/ ExecutionFacts(t) = base
          \/ ExecutionFacts(t) = [base EXCEPT !.PreflightDeferred = TRUE,
                                              !.ConsumersAmbiguous = TRUE]
          \/ ExecutionFacts(t) = full
      BY Zenon DEF ExecutionFacts, base
    <3> HIDE DEF full
    <3> QED  BY <2>1, <3>1, <3>2, <3>3, <3>4, Zenon
  <2>3. Truthful(Saw(ExecutionFacts(t)))
    BY <2>2, <1>NothingWitnessed
  <2>4. \A u : Truthful(Changed(ExecutionFacts(t), u))
    BY <2>2, <1>ChangedWitnessed
  <2>5. Truthful(PreparedExecutionChanged(ExecutionFacts(t), t))
    BY <2>3, <2>4, Zenon DEF PreparedExecutionChanged, PlacementVerdict
  <2>6. Truthful(Saw([NoFacts EXCEPT !.CompletionReady = CommittedDestination(vol, TRUE)]))
    <3> DEFINE g == [NoFacts EXCEPT !.CompletionReady = CommittedDestination(vol, TRUE)]
    <3>1. Witnessed(g)
      BY DEF Witnessed, NoFacts, FactNames
    <3> HIDE DEF g
    <3>2. Truthful(Saw(g))
      BY <3>1, <1>NothingWitnessed
    <3> QED  BY <3>2 DEF g
  <2>7. Truthful(Saw([NoFacts EXCEPT !.CleanupFailed = TRUE]))
    <3> DEFINE g == [NoFacts EXCEPT !.CleanupFailed = TRUE]
    <3>1. Witnessed(g)
      BY DEF Witnessed, NoFacts, FactNames
    <3> HIDE DEF g
    <3>2. Truthful(Saw(g))
      BY <3>1, <1>NothingWitnessed
    <3> QED  BY <3>2 DEF g
  <2> QED
    BY <2>3, <2>5, <2>6, <2>7, <1>NothingWitnessed, <1>RetirementWitnessed
      DEF ObserveExecution
(* What a pass observes of a cancellation is true.                          *)
<1>CancellationWitnessed. Truthful(ObserveCancellation)
  <2> DEFINE restoring == vol.locked /\ vol.phase \in {"Moving", "Blocked"}
             claiming == mv.phase = "Canceling" /\ ~vol.locked /\ mv.plan
             g == [NoFacts EXCEPT !.PlacementAbsent =
                      ~restoring /\ ~claiming /\ placement.state = "none"]
  <2>1. Witnessed(g)
    <3> HIDE DEF restoring, claiming
    <3> QED  BY DEF Witnessed, NoFacts, FactNames
  <2>2. Truthful(Saw(g))
    <3> HIDE DEF g
    <3> QED  BY <2>1, <1>NothingWitnessed
  <2> QED  BY <2>2, <1>NothingWitnessed DEF ObserveCancellation
(* What a pass observes of a blocked Move is true.                          *)
<1>BlockedWitnessed.
  ASSUME NEW t
  PROVE  Truthful(ObserveBlocked(t))
  <2> USE <1>BlockedWitnessed
  <2>1. ~vol.locked => Truthful(Saw([NoFacts EXCEPT !.RecoveryUnlockObserved = TRUE]))
    <3> SUFFICES ASSUME ~vol.locked
                 PROVE  Truthful(Saw([NoFacts EXCEPT !.RecoveryUnlockObserved = TRUE]))
      OBVIOUS
    <3> DEFINE g == [NoFacts EXCEPT !.RecoveryUnlockObserved = TRUE]
    <3>1. Witnessed(g)
      BY DEF Witnessed, NoFacts, FactNames
    <3> HIDE DEF g
    <3>2. Truthful(Saw(g))
      BY <3>1, <1>NothingWitnessed
    <3> QED  BY <3>2 DEF g
  <2>2. Truthful(Saw(NoFacts)) /\ Truthful(Unread(NoFacts)) /\ Truthful(FAILED)
    BY <1>NothingWitnessed
  <2>3. Truthful(ObserveRecovery(t))
    BY <2>1, <2>2 DEF ObserveRecovery
  <2> QED  BY <2>2, <2>3, <1>RetirementWitnessed DEF ObserveBlocked
(* The observation itself.                                                  *)
<1> SUFFICES ASSUME NEW t
             PROVE  Truthful(ObserveLifecycle(t))
  OBVIOUS
<1>1. Truthful(Unread(NoFacts))
  BY <1>NothingWitnessed
<1> QED
  BY <1>1, <1>CancellationWitnessed, <1>BlockedWitnessed, <1>PreparationWitnessed,
     <1>ExecutionWitnessed
  DEF ObserveLifecycle

(* The facts every observation is completed with, and those it keeps.       *)
LEMMA FactsOf ==
  ASSUME NEW s, DOMAIN s.facts = FactNames
  PROVE  LET o == LifecycleFacts(s)
         IN /\ o.ProtectionPresent = mv.protected
            /\ o.SourcePlanRecorded = mv.plan
            /\ o.SourceClaimed = (s.read /\ vol.locked)
            /\ o.PreparationReserved = mv.hold
            /\ o.DestinationIntentRecorded = ~NoDestinationIntent
            /\ o.CapacityApproved = mv.approved
            /\ o.SourceMoving = (s.read /\ vol.phase = "Moving")
            /\ o.SourceBlocked = (s.read /\ vol.phase = "Blocked")
            /\ o.RecoveryRequested = RecoveryRequested
            /\ o.SettlementOnly = mv.settle
            /\ o.RecoveryOwnerIsDestination = (s.read /\ vol.owner = "dst")
            /\ o.WorkloadRetired = s.facts.WorkloadRetired
            /\ o.CopyComplete = s.facts.CopyComplete
            /\ o.PromotionComplete = s.facts.PromotionComplete
            /\ o.OwnerCommitted = s.facts.OwnerCommitted
            /\ o.RecoveryUnlockObserved = s.facts.RecoveryUnlockObserved
  BY ZenonT(30) DEF LifecycleFacts, NoFacts, FactNames

(* Where the Volume must have been read.                                    *)
LEMMA VolumeIsRead ==
  ASSUME NEW t, TypeOK, PlanInv, ObserveLifecycle(t).ok
  PROVE  LET s == ObserveLifecycle(t)
         IN /\ mv.phase \in {"Canceling", "Cancelled"} /\ mv.recovery # "Recovered" => s.read
            /\ /\ mv.phase = "Blocked" /\ mv.recovery # "Recovered" /\ mv.intent
               /\ RecoveryRequested /\ ~s.facts.WorkloadRetired
               => /\ s.read
                  /\ vol.phase # "Moving"
                  /\ Retired => mv.settle
            /\ mv.phase \notin {"Pending", "Preparing", "Canceling", "Cancelled",
                                "Blocked", "Succeeded", "StartingDisruption"}
               => mv.hold \/ mv.intent \/ mv.recovery = "Recovered"
<1> DEFINE s == ObserveLifecycle(t)
<1>1. /\ \A f : Saw(f).read = TRUE /\ Saw(f).ok = TRUE /\ Saw(f).facts = f
      /\ \A f : Unread(f).read = FALSE
      /\ FAILED.ok = FALSE
  BY DEF Saw, Unread, FAILED
<1>2. ASSUME mv.phase \in {"Canceling", "Cancelled"}, mv.recovery # "Recovered"
      PROVE  s.read
  <2>1. s = ObserveCancellation
    BY <1>2 DEF ObserveLifecycle
  <2> QED  BY <1>1, <2>1 DEF ObserveCancellation
<1>3. ASSUME mv.phase = "Blocked", mv.recovery # "Recovered", mv.intent,
             RecoveryRequested, ~s.facts.WorkloadRetired
      PROVE  s.read /\ vol.phase # "Moving" /\ (Retired => mv.settle)
  <2>1. s = ObserveBlocked(t)
    BY <1>3 DEF ObserveLifecycle
  <2>2. NeedsRecoveryObservation /\ ~Unapproved
    BY <1>3 DEF NeedsRecoveryObservation, Unapproved, NoDestinationIntent
  <2>3. CASE NeedsWorkloadLifetime /\ Retired
    <3>1. [NoFacts EXCEPT !.WorkloadRetired = TRUE].WorkloadRetired
      BY DEF NoFacts
    <3>2. s = Saw([NoFacts EXCEPT !.WorkloadRetired = TRUE])
      BY <2>1, <2>2, <2>3 DEF ObserveBlocked, WorkloadRetirement
    <3> QED  BY <1>1, <1>3, <3>1, <3>2, Zenon
  <2>4. CASE ~(NeedsWorkloadLifetime /\ Retired)
    <3>1. s = ObserveRecovery(t)
      BY <2>1, <2>2, <2>4 DEF ObserveBlocked
    <3>2. Retired => mv.settle
      BY <1>3, <2>2, <2>4 DEF NeedsWorkloadLifetime
    <3>3. s.read /\ vol.phase # "Moving"
      BY <1>1, <3>1 DEF ObserveRecovery, RecoveryGuards, SettlementArtifactsClosed
    <3> QED  BY <3>2, <3>3
  <2> QED  BY <2>3, <2>4
<1>4. ASSUME mv.phase \notin {"Pending", "Preparing", "Canceling", "Cancelled",
                              "Blocked", "Succeeded", "StartingDisruption"},
             mv.recovery # "Recovered"
      PROVE  mv.hold \/ mv.intent
  <2>1. s = ObserveExecution(t)
    BY <1>4 DEF ObserveLifecycle
  <2>2. ValidPreparedStage
    BY <1>1, <2>1 DEF ObserveExecution
  <2> QED  BY <2>2 DEF ValidPreparedStage
<1> QED  BY <1>2, <1>3, <1>4

(* A pass begins with what PassPlacement says it knows.                     *)
LEMMA LookPlacement ==
  ASSUME IInv, HInv, Look, "optout" \notin Inputs
  PROVE  HInv'

(* Facts that a pass keeps as it observed them.                             *)
<1>PlacementFactsOf.
  ASSUME NEW s, DOMAIN s.facts = FactNames
  PROVE  LET o == LifecycleFacts(s)
         IN /\ o.PlacementAbsent = s.facts.PlacementAbsent
            /\ o.PlacementExists = s.facts.PlacementExists
            /\ o.SourceAuthorityInvalid = s.facts.SourceAuthorityInvalid
  BY <1>PlacementFactsOf, ZenonT(30) DEF LifecycleFacts, NoFacts, FactNames
(* A cancellation reports the reservation absent only when it is.           *)
<1>AbsenceSeen.
  ASSUME NEW t, mv.phase = "Canceling", mv.recovery # "Recovered",
         ObserveLifecycle(t).ok, ObserveLifecycle(t).facts.PlacementAbsent
  PROVE  PlacementGone
  <2> USE <1>AbsenceSeen
  <2> DEFINE restoring == vol.locked /\ vol.phase \in {"Moving", "Blocked"}
             claiming == mv.phase = "Canceling" /\ ~vol.locked /\ mv.plan
             absent == ~restoring /\ ~claiming /\ placement.state = "none"
             g == [NoFacts EXCEPT !.PlacementAbsent = absent]
  <2>1. ObserveLifecycle(t) = ObserveCancellation
    BY DEF ObserveLifecycle
  <2>2. ObserveCancellation \in {FAILED, Saw(g)}
    BY Zenon DEF ObserveCancellation
  <2>3. FAILED.ok = FALSE /\ Saw(g).facts = g
    BY DEF FAILED, Saw
  <2>4. g.PlacementAbsent = absent
    <3> HIDE DEF absent
    <3> QED  BY DEF NoFacts
  <2> HIDE DEF g
  <2>5. absent
    BY <2>1, <2>2, <2>3, <2>4, Zenon
  <2> QED  BY <2>5 DEF PlacementGone
(* While the reservation is being released, a pass that sees its workload   *)
(* sees the reservation Pod as long as there is one.                        *)
<1>ReleaseSeen.
  ASSUME NEW t, mv.phase = "ReleasingDestination", mv.recovery # "Recovered",
         t # "optout", ObserveLifecycle(t).ok
  PROVE  LET f == ObserveLifecycle(t).facts
         IN /\ mv.intent
            /\ \/ f.PlacementExists \/ f.SourceAuthorityInvalid \/ f.WorkloadRetired
               \/ PlacementGone
  <2> USE <1>ReleaseSeen
  <2> DEFINE s == ObserveLifecycle(t)
  <2>1. s = ObserveExecution(t)
    BY DEF ObserveLifecycle
  <2>2. FAILED.ok = FALSE /\ \A g : Saw(g).facts = g
    BY DEF FAILED, Saw
  <2>3. ValidPreparedStage
    BY <2>1, <2>2 DEF ObserveExecution
  <2>4. ~Unapproved /\ mv.intent
    BY <2>3 DEF ValidPreparedStage
  <2>5. CASE NeedsWorkloadLifetime /\ Retired
    <3>1. s = Saw([NoFacts EXCEPT !.WorkloadRetired = TRUE])
      BY <2>1, <2>3, <2>4, <2>5 DEF ObserveExecution, WorkloadRetirement
    <3>2. [NoFacts EXCEPT !.WorkloadRetired = TRUE].WorkloadRetired
      BY DEF NoFacts
    <3> QED  BY <2>2, <2>4, <3>1, <3>2, Zenon
  <2>6. CASE ~(NeedsWorkloadLifetime /\ Retired)
    <3>1. s = Saw(ExecutionFacts(t))
      BY <2>1, <2>3, <2>4, <2>6 DEF ObserveExecution
    <3>2. s.facts = ExecutionFacts(t)
      BY <2>2, <3>1
    <3> DEFINE base == [NoFacts EXCEPT !.OwnerCommitted = CommittedDestination(vol, FALSE),
                                       !.SourceHealthy = t # "sick"]
    <3>3. DOMAIN base = FactNames /\ base.OwnerCommitted = CommittedDestination(vol, FALSE)
      BY DEF NoFacts, FactNames
    <3>4. "SourceAuthorityInvalid" \in FactNames /\ "PlacementExists" \in FactNames
      BY DEF NoFacts, FactNames
    <3>5. CASE vol.owner # "src" /\ ~CommittedDestination(vol, FALSE)
      <4>1. ExecutionFacts(t) = [base EXCEPT !.SourceAuthorityInvalid = TRUE]
        BY <3>3, <3>5, Zenon DEF ExecutionFacts
      <4> HIDE DEF base
      <4>2. ExecutionFacts(t).SourceAuthorityInvalid
        BY <3>3, <3>4, <4>1
      <4> QED  BY <2>4, <3>2, <4>2
    <3>6. CASE ~(vol.owner # "src" /\ ~CommittedDestination(vol, FALSE))
      <4>1. ExecutionFacts(t).PlacementExists = (placement.state # "none")
        BY <2>4, <3>3, <3>4, <3>6, ZenonT(30) DEF ExecutionFacts
      <4> QED  BY <2>4, <3>2, <4>1, Zenon DEF PlacementGone
    <3> QED  BY <3>5, <3>6, Zenon
  <2> QED  BY <2>5, <2>6
(* The pass.                                                                *)
<1>1. PICK t : Observe(t) /\ t # "optout"
  BY DEF Look, ObserveCalm, ObserveTroubled
<1> DEFINE s == ObserveLifecycle(t)
           o == LifecycleFacts(s)
           d == Decide(mv.phase, mv.recovery, o)
<1>2. UNCHANGED <<mv, placement>>
  BY DEF Look
<1>3. /\ s.ok /\ d # Refused /\ d.action # "FinalizeSourceUsage"
      /\ ctl'.d = d /\ ctl'.step = NextStep(d.action)
  BY <1>1, Zenon DEF Observe
<1>4. mv.phase \in PhaseNames /\ mv.recovery \in RecoveryPhases
  BY PhasesAre DEF IInv, TypeOK, Moves
<1>5. /\ PlacementSound(mv.phase, o, d.phase, d.action)
      /\ mv.recovery # "none" => mv.phase = "Blocked"
  BY <1>3, <1>4, DecisionsKeepPlacement DEF PlacementReasoned
<1>6. RecoveryReason(mv.phase, mv.recovery, o, d.recovery, d.action)
  <2>1. Reasoned(mv.phase, mv.recovery, o, d)
    BY <1>4, DecisionsAreReasoned
  <2>2. PICK q, r, a : d = Decision(q, r, a) /\ Sound(mv.phase, mv.recovery, o, q, r, a)
    BY <1>3, <2>1 DEF Reasoned
  <2>3. d.recovery = r /\ d.action = a
    BY <2>2 DEF Decision
  <2> QED  BY <2>2, <2>3 DEF Sound
<1>7. DOMAIN s.facts = FactNames
  BY ObservationsAreTruthful DEF Truthful, Witnessed
<1>8. /\ o.PlacementAbsent = s.facts.PlacementAbsent
      /\ o.PlacementExists = s.facts.PlacementExists
      /\ o.SourceAuthorityInvalid = s.facts.SourceAuthorityInvalid
  BY <1>7, <1>PlacementFactsOf
<1>9. /\ o.ProtectionPresent = mv.protected /\ o.SourcePlanRecorded = mv.plan
      /\ o.DestinationIntentRecorded = ~NoDestinationIntent
      /\ o.CapacityApproved = mv.approved /\ o.WorkloadRetired = s.facts.WorkloadRetired
  BY <1>7, FactsOf, Zenon
<1>10. mv.intent => ~BeforeExecutionApproval(o)
  BY <1>9, Zenon DEF BeforeExecutionApproval, NoDestinationIntent
<1>11. mv.phase = "ReleasingDestination" =>
         /\ mv.intent
         /\ \/ s.facts.PlacementExists \/ s.facts.SourceAuthorityInvalid
            \/ s.facts.WorkloadRetired \/ PlacementGone
  BY <1>1, <1>3, <1>5, <1>ReleaseSeen
<1>12. mv.phase = "Canceling" /\ s.facts.PlacementAbsent => PlacementGone
  BY <1>3, <1>5, <1>AbsenceSeen
<1>13. mv.phase \in Executing => mv.hold \/ mv.intent
  <2>1. mv.phase \notin {"Pending", "Preparing", "Canceling", "Cancelled", "Blocked",
                         "Succeeded", "StartingDisruption"}
        => mv.hold \/ mv.intent \/ mv.recovery = "Recovered"
    BY <1>3, VolumeIsRead DEF IInv
  <2> QED  BY <1>5, <2>1 DEF Executing
<1> HIDE DEF s, o, d
<1>14. d.phase \in Unreserved => PlacementGone
  BY <1>5, <1>8, <1>9, <1>10, <1>11, <1>12 DEF PlacementSound, HInv, PlacementInv
<1>15. d.recovery \notin {"none", "Quiescing"} =>
         PlacementGone \/ (d.action = "QuiesceRecovery" /\ ctl'.step = "act")
  BY <1>3, <1>6 DEF RecoveryReason, HInv, PlacementInv, NextStep
<1>16. d.action \in Reserving =>
         /\ mv.protected /\ mv.plan
         /\ mv.phase \notin Unreserved /\ d.phase \notin Unreserved
         /\ mv.recovery = "none" /\ d.recovery = "none"
  <2> SUFFICES ASSUME d.action \in Reserving
               PROVE  /\ mv.protected /\ mv.plan
                      /\ mv.phase \notin Unreserved /\ d.phase \notin Unreserved
                      /\ mv.recovery = "none" /\ d.recovery = "none"
    OBVIOUS
  <2>1. /\ mv.phase \notin Unreserved /\ d.phase \notin Unreserved
        /\ mv.recovery = "none" /\ d.recovery = "none"
    BY <1>5, <1>6 DEF PlacementSound, RecoveryReason
  <2>2. mv.plan
    BY <1>5, <1>9, <1>13 DEF PlacementSound, Reserving, HInv, PlacementInv
  <2>3. mv.protected
    BY <2>1, <2>2 DEF IInv, PlanInv, Unreserved
  <2> QED  BY <2>1, <2>2, <2>3
<1>17. PassPlacement(ctl.d, ctl.d.action)'
  BY <1>2, <1>3, <1>5, <1>14, <1>15, <1>16
  DEF PassPlacement, PlacementSound, PlacementGone, At
<1>18. PlacementInv'
  BY <1>2 DEF HInv, PlacementInv, PlacementGone
<1> QED  BY <1>17, <1>18 DEF HInv

(* A pass begins with a decision that is sound for true facts.              *)
LEMMA LookEffect ==
  ASSUME IInv, NEW t, Observe(t)
  PROVE  \E q \in MovePhases, s \in RecoveryPhases, a \in Effects \cup PersistOnly,
            v \in {vol, NoVolume} : \E f : Begins(q, s, a, v, f)
<1> DEFINE s == ObserveLifecycle(t)
           o == LifecycleFacts(s)
           d == Decide(mv.phase, mv.recovery, o)
           v == IF s.read THEN vol ELSE NoVolume
<1>1. mv.phase \in PhaseNames /\ mv.recovery \in RecoveryPhases /\ vol \in Volumes
  BY PhasesAre DEF IInv, TypeOK, Moves
<1>2. Reasoned(mv.phase, mv.recovery, o, d)
  BY <1>1, DecisionsAreReasoned
<1>3. /\ s.ok /\ d # Refused /\ d.action # "FinalizeSourceUsage"
      /\ ctl' = [step |-> NextStep(d.action), d |-> d, vol |-> v,
                 held |-> s.facts.ReplacementHeld,
                 live |-> mv.phase = "StartingDisruption" /\ pods["old"].state = "bound",
                 committed |-> s.facts.OwnerCommitted, fresh |-> TRUE]
  BY DEF Observe
<1>4. PICK q, r, a : d = Decision(q, r, a) /\ Sound(mv.phase, mv.recovery, o, q, r, a)
  BY <1>2, <1>3 DEF Reasoned
<1>5. /\ q \in MovePhases /\ r \in RecoveryPhases /\ a \in Effects \cup PersistOnly
      /\ d.action = a
  BY <1>4, PhasesAre DEF Sound, Decision
<1>6. Truthful(s)
  BY ObservationsAreTruthful
<1>7. v # NoVolume <=> s.read
  BY <1>1, <1>6 DEF Volumes, NoVolume, Volume, Truthful
<1>8. o = LifecycleFacts([ok |-> TRUE, read |-> v # NoVolume, facts |-> s.facts])
  BY <1>6, <1>7, ZenonT(30) DEF LifecycleFacts, Truthful
<1>9. NextStep(a) = IF a \in PersistOnly THEN "persist" ELSE "act"
  BY DEF NextStep, PersistOnly
<1>10. /\ mv.phase \in {"Canceling", "Cancelled"} /\ mv.recovery # "Recovered" => s.read
       /\ /\ mv.phase = "Blocked" /\ mv.recovery # "Recovered" /\ mv.intent
          /\ RecoveryRequested /\ ~s.facts.WorkloadRetired
          => s.read /\ vol.phase # "Moving" /\ (Retired => mv.settle)
       /\ mv.phase \notin {"Pending", "Preparing", "Canceling", "Cancelled",
                           "Blocked", "Succeeded", "StartingDisruption"}
          => mv.hold \/ mv.intent \/ mv.recovery = "Recovered"
  BY <1>3, VolumeIsRead DEF IInv
<1>11. v \in {vol, NoVolume}
  OBVIOUS
<1>12. Witnessed(s.facts)
  BY <1>6 DEF Truthful
<1>13. Sound(mv.phase, mv.recovery,
             LifecycleFacts([ok |-> TRUE, read |-> v # NoVolume, facts |-> s.facts]), q, r, a)
  BY <1>4, <1>8
<1>14. ctl' = [step |-> IF a \in PersistOnly THEN "persist" ELSE "act",
               d |-> Decision(q, r, a), vol |-> v, held |-> s.facts.ReplacementHeld,
               live |-> mv.phase = "StartingDisruption" /\ pods["old"].state = "bound",
               committed |-> s.facts.OwnerCommitted, fresh |-> TRUE]
  BY <1>3, <1>4, <1>5, <1>9
<1> HIDE DEF s, o, d, v
<1>15. Begins(q, r, a, v, s.facts)
  BY <1>7, <1>10, <1>12, <1>13, <1>14, Zenon DEF Begins
<1> QED  BY <1>5, <1>11, <1>15

(* Passes and the decisions they carry.                                     *)
LEMMA PassTypes ==
  /\ Idle \in Passes /\ Idle.step = "idle"
  /\ \A p \in Passes :
        /\ p.step \in {"idle", "act", "act2", "persist"} /\ p.d \in Decisions \cup {Refused}
        /\ p.vol \in Volumes \cup {NoVolume} /\ p.held \in BOOLEAN /\ p.live \in BOOLEAN
        /\ p.committed \in BOOLEAN /\ p.fresh \in BOOLEAN
  /\ \A q \in MovePhases, r \in RecoveryPhases, a \in MoveActions :
        /\ Decision(q, r, a) \in Decisions
        /\ Decision(q, r, a).phase = q /\ Decision(q, r, a).recovery = r
        /\ Decision(q, r, a).action = a
  BY DEF Idle, Passes, Decisions, Decision

(* A pass that has begun knows what PassInv says it knows.                  *)
LEMMA LookStep ==
  ASSUME IInv, Look
  PROVE  ctl' \in Passes /\ ctl'.d \in Decisions /\ PassInv'
<1>1. PICK t : Observe(t)
  BY DEF Look, ObserveCalm, ObserveTroubled
<1>2. PICK q \in MovePhases, s \in RecoveryPhases, a \in Effects \cup PersistOnly,
           v \in {vol, NoVolume} : \E f : Begins(q, s, a, v, f)
  BY <1>1, LookEffect
<1>3. PICK f : Begins(q, s, a, v, f)
  BY <1>2
<1> DEFINE sight == [ok |-> TRUE, read |-> v # NoVolume, facts |-> f]
           o == LifecycleFacts(sight)
           p == mv.phase
           r == mv.recovery
<1>4. /\ TypeOK /\ VolumeInv /\ PlanInv /\ PhaseInv /\ JobInv
      /\ vol \in Volumes /\ mv \in Moves
  BY DEF IInv, TypeOK
<1>5. UNCHANGED <<vol, mv, journal, cluster, pods, placement, jobs, disk, written, pool>>
  BY DEF Look
<1>6. /\ o.ProtectionPresent = mv.protected
      /\ o.SourcePlanRecorded = mv.plan
      /\ o.SourceClaimed = (v # NoVolume /\ vol.locked)
      /\ o.PreparationReserved = mv.hold
      /\ o.DestinationIntentRecorded = ~NoDestinationIntent
      /\ o.CapacityApproved = mv.approved
      /\ o.SourceMoving = (v # NoVolume /\ vol.phase = "Moving")
      /\ o.SourceBlocked = (v # NoVolume /\ vol.phase = "Blocked")
      /\ o.RecoveryRequested = RecoveryRequested
      /\ o.SettlementOnly = mv.settle
      /\ o.RecoveryOwnerIsDestination = (v # NoVolume /\ vol.owner = "dst")
      /\ o.WorkloadRetired = f.WorkloadRetired
      /\ o.CopyComplete = f.CopyComplete
      /\ o.PromotionComplete = f.PromotionComplete
      /\ o.OwnerCommitted = f.OwnerCommitted
      /\ o.RecoveryUnlockObserved = f.RecoveryUnlockObserved
  <2>1. sight.facts = f /\ sight.read = (v # NoVolume) /\ DOMAIN f = FactNames
    BY <1>3 DEF Begins, Witnessed
  <2> HIDE DEF sight
  <2> QED  BY <2>1, FactsOf, ZenonT(40)
<1>7. Sound(p, r, o, q, s, a)
  BY <1>3, Zenon DEF Begins
<1>8. BeforeExecutionApproval(o) <=> ~mv.intent
  BY <1>4, <1>6, Zenon DEF BeforeExecutionApproval, NoDestinationIntent, PlanInv
<1> HIDE DEF sight, o
<1>9. /\ ctl'.step = IF a \in PersistOnly THEN "persist" ELSE "act"
      /\ ctl'.d = Decision(q, s, a) /\ ctl'.vol = v
      /\ ctl'.d.phase = q /\ ctl'.d.recovery = s /\ ctl'.d.action = a
  BY <1>3, PassTypes DEF Begins, Decision
<1>10. ctl' \in Passes /\ ctl'.d \in Decisions
  <2>1. a \in MoveActions
    BY DEF Effects, PersistOnly, MoveActions
  <2>3. f.ReplacementHeld \in BOOLEAN /\ f.OwnerCommitted \in BOOLEAN
    BY <1>3, Zenon DEF Begins, Witnessed
  <2>4. v \in Volumes \cup {NoVolume}
    BY <1>4
  <2>5. Decision(q, s, a) \in Decisions
    BY <2>1, PassTypes
  <2>2. ctl'.d \in Decisions
    BY <1>9, <2>5
  <2> HIDE DEF Decisions, Volumes
  <2>6. ctl' \in Passes
    BY <1>3, <2>3, <2>4, <2>5 DEF Begins, Passes
  <2> QED  BY <2>2, <2>6
<1>11. vol # NoVolume
  BY <1>4 DEF Volumes, NoVolume, Volume
<1>12. /\ vol' = vol /\ mv' = mv /\ disk' = disk /\ Quiet' = Quiet /\ Retired' = Retired
       /\ ServingOrRetired' = ServingOrRetired
  BY <1>5 DEF Quiet, Retired, ServingOrRetired
<1>13. /\ a \in PersistOnly => a \notin Effects
       /\ a \notin PersistOnly => ctl'.step = "act"
  BY <1>9 DEF Effects, PersistOnly
<1>14. /\ f.WorkloadRetired => Retired
       /\ f.CopyComplete \/ p = "Promoting" => disk.receipt
       /\ f.PromotionComplete => disk.promoted
       /\ f.OwnerCommitted \/ p \in Committed => vol.owner = "dst"
       /\ f.RecoveryUnlockObserved => ~vol.locked
  BY <1>3, <1>4, ZenonT(30) DEF Begins, Witnessed, CommittedDestination, JobInv, PhaseInv
<1>15. /\ p \in {"Canceling", "Cancelled"} /\ r # "Recovered" => v # NoVolume
       /\ /\ p = "Blocked" /\ r # "Recovered" /\ mv.intent
          /\ RecoveryRequested /\ ~f.WorkloadRetired
          => v # NoVolume /\ vol.phase # "Moving" /\ (Retired => mv.settle)
       /\ p \notin {"Pending", "Preparing", "Canceling", "Cancelled", "Blocked"}
          => mv.hold \/ mv.intent \/ r = "Recovered"
  <2>1. p = "Succeeded" => mv.intent
    BY <1>4 DEF PhaseInv, VolumeInv, Committed
  <2>2. p = "StartingDisruption" => mv.hold
    BY <1>4 DEF PlanInv
  <2> QED  BY <1>3, <2>1, <2>2, ZenonT(30) DEF Begins
<1>16. r # "none" => mv.intent
  BY <1>4 DEF PlanInv
<1>17. /\ vol.phase \in {"Ready", "Moving", "Blocked"} /\ vol.locked \in BOOLEAN
       /\ vol.owner \in {"src", "dst"}
  BY <1>4 DEF Volumes, Nodes
<1>18. /\ PhaseReason(p, o, q, a) /\ RecoveryReason(p, r, o, s, a)
       /\ ActionReason(p, r, o, q, s, a) /\ RecoveryActionReason(p, r, o, s, a)
  BY <1>7 DEF Sound
<1>19. Outlook(ctl.d)'
  <2>1. /\ q \in Committed => vol.owner = "dst" \/ a = "CommitOwner"
        /\ q = "Promoting" => disk.receipt
        /\ q = "StartingDisruption" => mv.hold
        /\ q = "Succeeded" => ~vol.locked \/ a = "MarkSucceeded"
        /\ p \in {"Succeeded", "Cancelled"} => q = p
    BY <1>4, <1>6, <1>14, <1>18, ZenonT(30) DEF PhaseReason, ActionReason, PlanInv, PhaseInv
  <2>2. /\ s = "Recovered" => ~vol.locked \/ a = "CompleteRecovery"
        /\ s \notin {"none", "Quiescing"} => Quiet \/ a = "QuiesceRecovery"
        /\ s # "none" => mv.intent
        /\ s = "Completing" => a \in {"RetireRecovery", "ResumeRecovery"}
        /\ r = "Recovered" => s = "Recovered"
    BY <1>4, <1>6, <1>8, <1>14, <1>16, <1>18 DEF RecoveryReason, PhaseInv
  <2>3. s = "Retiring" /\ ~mv.settle /\ vol.owner = "dst" => a = "ResumeRecovery"
    <3> SUFFICES ASSUME s = "Retiring", ~mv.settle, vol.owner = "dst", a = "VerifyRecovery"
                 PROVE  FALSE
      BY <1>18 DEF RecoveryReason
    <3>1. p = "Blocked" /\ r # "Recovered" /\ mv.intent
      BY <1>8, <1>16, <1>18 DEF RecoveryReason
    <3>2. RecoveryRequested /\ ~f.WorkloadRetired
      BY <1>6, <1>8, <1>18, <3>1 DEF RecoveryActionReason
    <3>3. v # NoVolume
      BY <1>15, <3>1, <3>2
    <3> QED  BY <1>6, <1>18, <3>3, Zenon DEF RecoveryReason
  <2>4. a \in {"CommitOwner", "MarkSucceeded", "CompleteRecovery", "QuiesceRecovery",
               "RetireRecovery", "ResumeRecovery"} => ctl'.step = "act"
    BY <1>9 DEF PersistOnly
  <2> QED  BY <1>9, <1>12, <2>1, <2>2, <2>3, <2>4 DEF Outlook, At
<1>20. Grounds(ctl.d, ctl.d.action)'
  <2>1. /\ a \in {"ReservePreparation", "StartDisruption", "ClaimSource",
                   "InitializePreparation", "ReleasePreparation"} => ~mv.intent
        /\ a \in {"ClaimSource", "InitializePreparation"} => mv.protected
        /\ a = "StartDisruption" =>
              mv.phase = "StartingDisruption" /\ mv.hold /\ vol.locked
        /\ a = "EnsureCapacity" => mv.phase = "WaitingForCapacity"
    BY <1>4, <1>6, <1>8, <1>18, Zenon DEF ActionReason, PlanInv
  <2>2. /\ a \in {"ReleaseSource", "ReleasePreparation"} => vol.phase = "Ready"
        /\ a = "ReleasePreparation" => q = "Cancelled"
        /\ a = "FinalizeHistory" => ~vol.locked
    BY <1>4, <1>6, <1>15, <1>17, <1>18, ZenonT(30) DEF ActionReason, VolumeInv, PhaseInv
  <2>3. /\ a \in {"EnsureCopy", "EnsurePromotion"} => r = "none" /\ s = "none"
        /\ a = "EnsurePromotion" => disk.receipt
        /\ a = "CommitOwner" => vol.owner = "dst" \/ disk.promoted
        /\ a = "EnsureCleanup" => vol.owner = "dst"
        /\ a = "MarkBlocked" => r = "none" /\ s = "none" /\ (mv.hold \/ mv.intent)
        /\ a = "RequestSettlement" => mv.intent /\ Retired
    BY <1>6, <1>8, <1>14, <1>15, <1>18, ZenonT(30) DEF ActionReason, Committed
  <2>4. ASSUME a \in {"RetireRecovery", "ResumeRecovery", "CompleteRecovery"}
        PROVE  /\ mv.intent /\ v # NoVolume /\ vol.phase # "Moving"
               /\ Retired => mv.settle
               /\ a = "RetireRecovery" => r = "Retiring"
               /\ a = "ResumeRecovery" => r = "Resuming"
               /\ a = "CompleteRecovery" => r = "Completing"
               /\ a = "RetireRecovery" /\ s = "Completing" /\ ~mv.settle => vol.owner = "dst"
    <3>1. /\ p = "Blocked" /\ r \in {"Retiring", "Resuming", "Completing"} /\ mv.intent
          /\ RecoveryRequested /\ ~f.WorkloadRetired
      BY <1>6, <1>8, <1>16, <1>18, <2>4, Zenon DEF RecoveryActionReason
    <3> QED  BY <1>6, <1>15, <1>18, <2>4, <3>1, ZenonT(30) DEF RecoveryActionReason
  <2>5. a = "CompleteRecovery" /\ ~mv.settle => vol.phase = "Ready"
    BY <1>4, <2>4 DEF PhaseInv, ServingOrRetired
  <2>6. ctl'.step # "act2"
    BY <1>9
  <2>7. v # NoVolume => v = vol
    OBVIOUS
  <2> QED
    BY <1>9, <1>12, <1>17, <2>1, <2>2, <2>3, <2>4, <2>5, <2>6, <2>7 DEF Grounds, At
<1>21. ctl'.committed => vol'.owner = "dst"
  BY <1>3, <1>12, Zenon DEF Begins, Witnessed, CommittedDestination
<1>22. PassInv'
  BY <1>9, <1>12, <1>13, <1>19, <1>20, <1>21 DEF PassInv, SeenIsCurrent
<1> QED  BY <1>10, <1>22

-----------------------------------------------------------------------------
(* Steps of everybody but the controller.  They leave phase, owner and lock *)
(* of the Volume and every decision of the Move alone.                      *)

(* A pass under way keeps what it relies on while others step.              *)
LEMMA PassKept ==
  ASSUME PassInv, SameMove, SameVolume, SamePass, Progress
  PROVE  PassInv'
<1>1. /\ ctl'.d = ctl.d /\ ctl'.step = ctl.step /\ ctl'.vol = ctl.vol
      /\ ctl'.committed = ctl.committed
  BY DEF SamePass
<1>2. \A s, a : At(s, a)' = At(s, a)
  BY <1>1 DEF At
<1>3. ServingOrRetired => ServingOrRetired'
  BY DEF ServingOrRetired, SameVolume, Progress
<1>4. ctl.step # "idle" => Outlook(ctl.d)'
  BY <1>1, <1>3 DEF PassInv, Outlook, At, SameMove, SameVolume, Progress
<1>5. ctl.step # "idle" => Grounds(ctl.d, ctl.d.action)'
  BY <1>1, ZenonT(30) DEF PassInv, Grounds, At, SameMove, SameVolume, Progress
<1>6. ctl.step \in {"act", "act2"} => SeenIsCurrent'
  BY <1>1 DEF PassInv, SeenIsCurrent, SameVolume
<1> QED  BY <1>1, <1>4, <1>5, <1>6 DEF PassInv, SameVolume

(* Actors other than the controller leave Volume, plan, phase and pass.     *)
LEMMA BystanderKeeps ==
  ASSUME IInv, Bystander
  PROVE  VolumeInv' /\ PlanInv' /\ PhaseInv' /\ PassInv'
<1>1. VolumeInv'
  BY DEF IInv, VolumeInv, Bystander, SameMove, SameVolume
<1>2. PlanInv'
  BY DEF IInv, PlanInv, Bystander, SameMove
<1>3. PhaseInv'
  BY DEF IInv, PhaseInv, ServingOrRetired, Bystander, SameMove, SameVolume, Progress
<1>4. PassInv'
  BY PassKept DEF IInv, Bystander
<1> QED  BY <1>1, <1>2, <1>3, <1>4

(* A write that finds a pass under way makes its snapshot stale.            *)
LEMMA StalePass ==
  ASSUME TypeOK, ctl' = Stale
  PROVE  ctl' \in Passes /\ SamePass
<1>1. ctl \in Passes
  BY DEF TypeOK
<1>2. [ctl EXCEPT !.fresh = FALSE] \in Passes
  <2> HIDE DEF Decisions, Volumes
  <2> QED  BY <1>1, Zenon DEF Passes
<1>3. LET c == [ctl EXCEPT !.fresh = FALSE]
      IN /\ c.step = ctl.step /\ c.d = ctl.d /\ c.vol = ctl.vol
         /\ c.committed = ctl.committed
  BY <1>1 DEF Passes
<1> QED  BY <1>1, <1>2, <1>3 DEF Stale, SamePass

-----------------------------------------------------------------------------
(* Helper Jobs.                                                             *)

(* The helper Jobs.                                                         *)
LEMMA JobTypes ==
  ASSUME jobs \in JobSets
  PROVE  /\ jobs.copy \in JobRecords /\ jobs.promote \in JobRecords
         /\ jobs.verify \in JobRecords /\ jobs.purge \in {"idle", "authorized"}
         /\ \A j \in JobKind : jobs[j] \in JobRecords
  BY DEF JobSets, JobKind

(* A Job record is its state and the progress of its Pod.                   *)
LEMMA JobRecordTypes ==
  /\ NoJob \in JobRecords /\ NewJob \in JobRecords
  /\ \A s \in {"none", "active", "complete", "failed", "deleting"},
        p \in {"idle", "authorized", "writing", "written"} :
        [state |-> s, pc |-> p] \in JobRecords
  /\ \A x \in JobRecords :
        /\ x.state \in {"none", "active", "complete", "failed", "deleting"}
        /\ x.pc \in {"idle", "authorized", "writing", "written"}
        /\ x = NoJob <=> x.state = "none" /\ x.pc = "idle"
        /\ \A p : [x EXCEPT !.pc = p] = [state |-> x.state, pc |-> p]
        /\ \A s : [x EXCEPT !.state = s] = [state |-> s, pc |-> x.pc]
  BY DEF JobRecords, NoJob, NewJob

(* Writing one Job leaves the others.                                       *)
LEMMA JobWrite ==
  ASSUME jobs \in JobSets, NEW j \in JobKind, NEW x \in JobRecords,
         jobs' = [jobs EXCEPT ![j] = x]
  PROVE  /\ jobs' \in JobSets /\ jobs'.purge = jobs.purge
         /\ jobs'.copy = IF j = "copy" THEN x ELSE jobs.copy
         /\ jobs'.promote = IF j = "promote" THEN x ELSE jobs.promote
         /\ jobs'.verify = IF j = "verify" THEN x ELSE jobs.verify
<1> HIDE DEF JobRecords
<1>1. CASE j = "copy"
  BY <1>1 DEF JobSets
<1>2. CASE j = "promote"
  BY <1>2 DEF JobSets
<1>3. CASE j = "verify"
  BY <1>3 DEF JobSets
<1> QED  BY <1>1, <1>2, <1>3 DEF JobKind

(* The parts of the invariant that helpers work on, with their types.       *)
LEMMA HelperContext ==
  ASSUME IInv
  PROVE  /\ jobs \in JobSets /\ disk \in Disks /\ written \in Nat
         /\ jobs.copy \in JobRecords /\ jobs.promote \in JobRecords
         /\ jobs.verify \in JobRecords
         /\ JobInv /\ DataInv /\ PlanInv /\ VolumeInv /\ vol \in Volumes /\ mv \in Moves
         /\ vol.owner \in Nodes /\ vol.phase \in {"Ready", "Moving", "Blocked"}
         /\ mv.intent \in BOOLEAN /\ mv.promote \in BOOLEAN
         /\ disk.src \in Int /\ disk.dst \in Int /\ disk.incoming \in Int
         /\ disk.receipt \in BOOLEAN /\ disk.promoted \in BOOLEAN /\ disk.meta \in BOOLEAN
<1>1. jobs \in JobSets /\ disk \in Disks /\ written \in Nat /\ vol \in Volumes /\ mv \in Moves
  BY DEF IInv, TypeOK
<1>2. vol.owner \in Nodes /\ vol.phase \in {"Ready", "Moving", "Blocked"}
  BY <1>1 DEF Volumes
<1>3. mv.intent \in BOOLEAN /\ mv.promote \in BOOLEAN
  BY <1>1 DEF Moves
<1>4. /\ disk.src \in Int /\ disk.dst \in Int /\ disk.incoming \in Int
      /\ disk.receipt \in BOOLEAN /\ disk.promoted \in BOOLEAN /\ disk.meta \in BOOLEAN
  BY <1>1 DEF Disks
<1> QED  BY <1>1, <1>2, <1>3, <1>4, JobTypes DEF IInv

(* Every step of a helper, and every fault of one, keeps the invariant.     *)
LEMMA HelperStep ==
  ASSUME IInv, NEW k \in JobKind, Helper(k) \/ HelperFault(k)
  PROVE  IInv'
(* A helper's step keeps the invariant if it keeps what is said of Jobs and *)
(* disk.                                                                    *)
<1>HelperFrame.
  ASSUME IInv, HelperKeeps, jobs'.purge = jobs.purge, faults' \in 0..MaxFaults,
         UNCHANGED <<vol, mv, journal, ctl, cluster, pods, placement, written, pool>>
  PROVE  IInv'
  <2> USE <1>HelperFrame
  <2>1. Bystander
    <3>1. SameMove /\ SameVolume /\ SamePass
      BY DEF IInv, VolumeInv, SameMove, SameVolume, SamePass
    <3>2. Progress
      BY DEF HelperKeeps
    <3>3. vol.phase = "Moving" /\ mv.intent => vol'.published = {}
      BY DEF IInv, VolumeInv
    <3> QED  BY <3>1, <3>2, <3>3 DEF Bystander
  <2>2. TypeOK'
    BY DEF IInv, TypeOK, HelperKeeps
  <2>3. PodInv'
    BY DEF IInv, PodInv, MountsAreFenced
  <2>4. JournalInv'
    BY DEF IInv, JournalInv, CleanupSparesOwner
  <2> QED  BY <2>1, <2>2, <2>3, <2>4, BystanderKeeps DEF IInv, HelperKeeps
(* Job j gets record x, and the disk stays as it is.                        *)
<1>JobOnly.
  ASSUME IInv, NEW j \in JobKind, NEW x \in JobRecords,
         jobs' = [jobs EXCEPT ![j] = x], UNCHANGED <<disk, mv, vol, written, cluster>>,
         x.state \in {"none", "complete", "failed"} => x.pc = "idle",
         x.state = "complete" => jobs[j].state = "complete" \/ j = "verify",
         x.pc \in Holding => jobs[j].pc = x.pc \/ j = "verify",
         x.pc # "idle" =>
            /\ j = "copy" => mv.intent
            /\ j = "promote" => mv.promote,
         jobs[j] = NoJob => x = NoJob \/ j = "verify"
  PROVE  HelperKeeps
  <2> USE <1>JobOnly
  <2>1. /\ jobs' \in JobSets /\ jobs'.purge = jobs.purge
        /\ jobs'.copy = IF j = "copy" THEN x ELSE jobs.copy
        /\ jobs'.promote = IF j = "promote" THEN x ELSE jobs.promote
        /\ jobs'.verify = IF j = "verify" THEN x ELSE jobs.verify
    BY HelperContext, JobWrite, Zenon
  <2>2. Progress
    BY <2>1 DEF Progress, Quiet, Retired, JobKind
  <2>3. JobInv'
    BY <2>1, HelperContext DEF JobInv, JobKind, Holding
  <2>4. DataInv'
    <3>1. /\ jobs'.promote.pc = "written" => jobs.promote.pc = "written"
          /\ jobs'.copy.pc \in Holding => jobs.copy.pc \in Holding
          /\ jobs'.copy.pc = "written" => jobs.copy.pc = "written"
      BY <2>1 DEF JobKind, Holding
    <3>2. CopyIsComplete => CopyIsComplete'
      BY <3>1 DEF CopyIsComplete
    <3>3. OwnerHasEveryWrite => OwnerHasEveryWrite'
      BY DEF OwnerHasEveryWrite
    <3> QED  BY <3>2, <3>3, HelperContext DEF DataInv
  <2> QED  BY <2>1, <2>2, <2>3, <2>4, HelperContext DEF HelperKeeps
(* A helper that goes on keeps the state of its Job.                        *)
<1>JobAtIs.
  ASSUME jobs \in JobSets, NEW j \in JobKind, NEW p, JobAt(j, p)
  PROVE  jobs' = [jobs EXCEPT ![j] = [state |-> jobs[j].state, pc |-> p]]
  <2> USE <1>JobAtIs
  <2>1. jobs' = [jobs EXCEPT ![j] = [jobs[j] EXCEPT !.pc = p]]
    BY Zenon DEF JobAt
  <2>2. [jobs[j] EXCEPT !.pc = p] = [state |-> jobs[j].state, pc |-> p]
    BY JobTypes, JobRecordTypes
  <2> QED  BY <2>1, <2>2, Zenon
(* A helper that is authorised keeps Jobs and disk.                         *)
<1>HelperAuthorizeStep.
  ASSUME IInv, NEW j \in JobKind, HelperAuthorize(j), UNCHANGED <<mv, vol, written, cluster>>
  PROVE  HelperKeeps
  <2> USE <1>HelperAuthorizeStep
  <2> DEFINE x == [state |-> "active", pc |-> IF j = "verify" THEN "written" ELSE "authorized"]
  <2>1. jobs[j] \in JobRecords /\ jobs \in JobSets
    BY HelperContext, JobTypes
  <2>2. x \in JobRecords /\ jobs' = [jobs EXCEPT ![j] = x]
    <3>1. jobs[j].state = "active" /\ JobAt(j, x.pc)
      BY DEF HelperAuthorize
    <3>2. x = [state |-> jobs[j].state, pc |-> x.pc]
      BY <3>1
    <3>3. x \in JobRecords
      BY JobRecordTypes
    <3> HIDE DEF x
    <3> QED  BY <2>1, <3>1, <3>2, <3>3, <1>JobAtIs
  <2>3. /\ j = "copy" => mv.intent
        /\ j = "promote" => mv.promote
    BY DEF HelperAuthorize, Authority, MoveAuthority, JobKind
  <2>4. jobs[j] # NoJob
    BY DEF HelperAuthorize, NoJob
  <2>5. x.state = "active" /\ (x.pc \in Holding => j = "verify")
    BY DEF Holding
  <2>6. UNCHANGED disk
    BY DEF HelperAuthorize
  <2> HIDE DEF x
  <2>7. x.state \notin {"none", "complete", "failed"}
    BY <2>5
  <2> QED  BY <2>2, <2>3, <2>4, <2>5, <2>6, <2>7, <1>JobOnly, Zenon
(* A Job that fails, expires or has gone keeps no claim on the disk.        *)
<1>HelperEndsStep.
  ASSUME IInv, NEW j \in JobKind, jobs[j].state # "none", UNCHANGED <<mv, vol, written, cluster, disk>>,
         JobFails(j) \/ jobs' = [jobs EXCEPT ![j] = NoJob] \/ JobAt(j, "idle")
  PROVE  HelperKeeps
  <2> USE <1>HelperEndsStep
  <2>1. jobs[j] \in JobRecords /\ jobs \in JobSets
    BY HelperContext, JobTypes
  <2>2. jobs[j] # NoJob
    BY DEF NoJob
  <2>3. PICK x \in JobRecords :
          /\ x = [state |-> "failed", pc |-> "idle"] \/ x = NoJob
               \/ x = [state |-> jobs[j].state, pc |-> "idle"]
          /\ jobs' = [jobs EXCEPT ![j] = x]
    BY <2>1, JobRecordTypes DEF JobFails, JobAt
  <2>4. x.pc = "idle" /\ (x.state = "complete" => jobs[j].state = "complete")
    BY <2>3 DEF NoJob
  <2>5. x.pc \notin Holding
    BY <2>4 DEF Holding
  <2> QED  BY <2>2, <2>3, <2>4, <2>5, <1>JobOnly, Zenon
(* A helper that finishes or fails keeps Jobs and disk.                     *)
<1>HelperFinishStep.
  ASSUME IInv, NEW j \in JobKind, HelperFinish(j), UNCHANGED <<mv, vol, written, cluster>>
  PROVE  HelperKeeps
  <2> USE <1>HelperFinishStep
  <2> DEFINE x == [state |-> "complete", pc |-> "idle"]
  <2>1. /\ x \in JobRecords /\ x.state = "complete" /\ x.pc = "idle"
        /\ jobs' = [jobs EXCEPT ![j] = x] /\ jobs[j].state = "active" /\ jobs[j].pc = "written"
    BY JobRecordTypes DEF HelperFinish
  <2> HIDE DEF x
  <2>2. /\ jobs' \in JobSets /\ jobs'.purge = jobs.purge
        /\ jobs'.copy = IF j = "copy" THEN x ELSE jobs.copy
        /\ jobs'.promote = IF j = "promote" THEN x ELSE jobs.promote
        /\ jobs'.verify = IF j = "verify" THEN x ELSE jobs.verify
    BY <2>1, HelperContext, JobWrite, Zenon
  <2>3. Quiet => Quiet'
    BY <2>1, <2>2 DEF Quiet, NoJob, JobKind
  <2>4. Retired => Retired'
    BY DEF Retired
  <2>5. CASE j = "copy"
    <3>1. /\ disk' = [disk EXCEPT !.receipt = TRUE] /\ mv.intent /\ vol.phase = "Moving"
      BY <2>5 DEF HelperFinish, Authority, MoveAuthority
    <3>2. /\ disk' \in Disks /\ disk'.receipt /\ disk'.src = disk.src /\ disk'.dst = disk.dst
          /\ disk'.incoming = disk.incoming /\ disk'.promoted = disk.promoted
          /\ disk'.meta = disk.meta
      BY <3>1, HelperContext, Zenon DEF Disks
    <3>3. JobInv'
      BY <2>1, <2>2, <2>5, <3>1, <3>2, HelperContext DEF JobInv, JobKind, Holding
    <3>4. ~mv.promote
      BY <2>1, <2>5, HelperContext DEF JobInv, Holding
    <3>5. CopyIsComplete'
      BY <2>1, <2>2, <2>5, <3>1, <3>2, <3>4, HelperContext
        DEF DataInv, CopyIsComplete, JobInv, Holding
    <3>6. DataInv'
      BY <3>2, <3>5, HelperContext DEF DataInv, OwnerHasEveryWrite, Nodes
    <3> QED  BY <2>2, <2>3, <2>4, <3>2, <3>3, <3>6 DEF HelperKeeps, Progress
  <2>6. CASE j = "promote"
    <3>1. /\ disk' = [disk EXCEPT !.promoted = TRUE, !.meta = FALSE] /\ vol.phase = "Moving"
          /\ mv.promote
      BY <2>6 DEF HelperFinish, Authority, MoveAuthority
    <3>2. /\ disk' \in Disks /\ disk'.receipt = disk.receipt /\ disk'.src = disk.src
          /\ disk'.dst = disk.dst /\ disk'.incoming = disk.incoming /\ disk'.promoted
          /\ ~disk'.meta
      BY <3>1, HelperContext, Zenon DEF Disks
    <3>3. mv.intent
      BY <3>1, HelperContext DEF PlanInv
    <3>4. JobInv'
      BY <2>1, <2>2, <2>6, <3>1, <3>2, <3>3, HelperContext DEF JobInv, JobKind, Holding
    <3>5. CopyIsComplete'
      BY <2>1, <2>2, <2>6, <3>1, <3>2, <3>3, HelperContext
        DEF DataInv, CopyIsComplete, JobInv, Holding
    <3>6. DataInv'
      BY <3>2, <3>5, HelperContext DEF DataInv, OwnerHasEveryWrite, Nodes
    <3> QED  BY <2>2, <2>3, <2>4, <3>2, <3>4, <3>6 DEF HelperKeeps, Progress
  <2>7. CASE j = "verify"
    <3>1. UNCHANGED disk
      BY <2>7 DEF HelperFinish
    <3>2. x.pc \notin Holding /\ jobs[j] # NoJob
      BY <2>1 DEF Holding, NoJob
    <3> QED  BY <2>1, <2>7, <3>1, <3>2, <1>JobOnly, Zenon
  <2> QED  BY <2>5, <2>6, <2>7 DEF JobKind
(* The start of a copy keeps Jobs and disk: there is no promotion yet.      *)
<1>CopyBeginStep.
  ASSUME IInv, CopyBegin, UNCHANGED <<mv, vol, written, cluster>>
  PROVE  HelperKeeps
  <2> USE <1>CopyBeginStep
  <2>1. /\ jobs \in JobSets /\ jobs.copy \in JobRecords /\ "copy" \in JobKind
        /\ jobs.copy.state \in {"active", "deleting"} /\ jobs.copy.pc = "authorized"
        /\ jobs.promote.pc \notin Holding
    BY HelperContext, JobTypes DEF CopyBegin, Running, Unlocked, JobKind, Holding
  <2>2. mv.intent
    BY <2>1, HelperContext DEF JobInv
  <2>3. CASE disk.meta /\ disk.incoming = 0
    <3>1. JobFails("copy") /\ UNCHANGED disk
      BY <2>3 DEF CopyBegin
    <3>2. jobs["copy"].state # "none"
      BY <2>1
    <3> QED  BY <2>1, <3>1, <3>2, <1>HelperEndsStep
  <2>4. CASE ~(disk.meta /\ disk.incoming = 0)
    <3> DEFINE s == IF jobs.copy.state = "active" /\ disk.receipt THEN "complete"
                    ELSE jobs.copy.state
               p == IF disk.receipt THEN "idle" ELSE "writing"
               x == [state |-> s, pc |-> p]
    <3>1. /\ s \in {"active", "complete", "deleting"}
          /\ s = "complete" => disk.receipt
          /\ p \in {"idle", "writing"} /\ (p = "idle" <=> disk.receipt)
          /\ x \in JobRecords
      BY <2>1, JobRecordTypes, HelperContext
    <3>2. jobs' = [jobs EXCEPT !["copy"] = x]
      <4>1. jobs' = [jobs EXCEPT !["copy"] =
                       IF jobs.copy.state = "active" /\ disk.receipt
                       THEN [state |-> "complete", pc |-> "idle"]
                       ELSE [jobs.copy EXCEPT !.pc = p]]
        BY <2>4 DEF CopyBegin
      <4>2. [jobs.copy EXCEPT !.pc = p] = [state |-> jobs.copy.state, pc |-> p]
        BY <2>1, JobRecordTypes
      <4>3. x = IF jobs.copy.state = "active" /\ disk.receipt
                THEN [state |-> "complete", pc |-> "idle"]
                ELSE [state |-> jobs.copy.state, pc |-> p]
        OBVIOUS
      <4> HIDE DEF s, p, x
      <4> QED  BY <4>1, <4>2, <4>3, Zenon
    <3>3. x.state = s /\ x.pc = p
      OBVIOUS
    <3>a. x \in JobRecords
      BY <3>1
    <3> HIDE DEF s, p, x
    <3>4. /\ jobs' \in JobSets /\ jobs'.copy = x
          /\ jobs'.promote = jobs.promote /\ jobs'.verify = jobs.verify
      BY <2>1, <3>2, <3>a, JobWrite, ZenonT(30)
    <3>5. /\ disk' \in Disks /\ disk'.src = disk.src /\ disk'.dst = disk.dst
          /\ disk'.promoted = disk.promoted /\ disk'.receipt = disk.receipt /\ disk'.meta
          /\ disk.meta /\ disk.receipt => disk'.incoming = disk.incoming
      <4> DEFINE v == IF disk.meta /\ disk.receipt THEN disk.incoming ELSE -1
      <4>1. disk' = [disk EXCEPT !.meta = TRUE, !.incoming = v]
        BY <2>4 DEF CopyBegin
      <4>2. v \in Int /\ (disk.meta /\ disk.receipt => v = disk.incoming)
        BY HelperContext
      <4> HIDE DEF v
      <4> QED  BY <4>1, <4>2, HelperContext, Zenon DEF Disks
    <3>6. Progress
      BY <2>1, <3>5 DEF Progress, Quiet, Retired, NoJob
    <3>7. JobInv'
      BY <2>1, <2>2, <3>1, <3>3, <3>4, <3>5, HelperContext
        DEF JobInv, JobKind, Holding
    <3>8. vol.phase = "Moving" => CopyIsComplete'
      BY <2>1, <2>2, <3>1, <3>3, <3>4, <3>5, HelperContext
      DEF DataInv, CopyIsComplete, JobInv, Holding
    <3>9. DataInv'
      BY <3>5, <3>8, HelperContext DEF DataInv, OwnerHasEveryWrite, Nodes
    <3> QED  BY <3>4, <3>5, <3>6, <3>7, <3>9 DEF HelperKeeps
  <2> QED  BY <2>3, <2>4
(* The end of a copy writes the receipt of a complete copy.                 *)
<1>CopyEndStep.
  ASSUME IInv, CopyEnd, UNCHANGED <<mv, vol, written, cluster>>
  PROVE  HelperKeeps
  <2> USE <1>CopyEndStep
  <2> DEFINE x == [state |-> jobs["copy"].state, pc |-> "written"]
  <2>1. /\ jobs \in JobSets /\ jobs.copy \in JobRecords /\ "copy" \in JobKind
        /\ jobs.copy.state \in {"active", "deleting"} /\ jobs.copy.pc = "writing"
        /\ JobAt("copy", "written") /\ disk' = [disk EXCEPT !.incoming = disk.src]
    BY HelperContext, JobTypes DEF CopyEnd, Running, JobKind
  <2>2. x \in JobRecords /\ x.state = jobs.copy.state /\ x.pc = "written"
    BY <2>1, JobRecordTypes
  <2>3. jobs' = [jobs EXCEPT !["copy"] = x]
    BY <2>1, <1>JobAtIs
  <2> HIDE DEF x
  <2>4. /\ jobs' \in JobSets /\ jobs'.copy = x
        /\ jobs'.promote = jobs.promote /\ jobs'.verify = jobs.verify
    BY <2>1, <2>2, <2>3, JobWrite, Zenon
  <2>5. /\ disk' \in Disks /\ disk'.src = disk.src /\ disk'.dst = disk.dst
        /\ disk'.promoted = disk.promoted /\ disk'.receipt = disk.receipt
        /\ disk'.meta = disk.meta /\ disk'.incoming = disk.src
    BY <2>1, HelperContext DEF Disks
  <2>6. Progress
    BY <2>1, <2>5 DEF Progress, Quiet, Retired, NoJob
  <2>7. ~disk.receipt /\ mv.intent /\ ~mv.promote /\ jobs.promote.pc \notin Holding
    BY <2>1, HelperContext DEF JobInv, Holding
  <2>8. JobInv'
    BY <2>1, <2>2, <2>4, <2>5, <2>7, HelperContext DEF JobInv, JobKind, Holding
  <2>9. vol.phase = "Moving" => CopyIsComplete'
    BY <2>1, <2>2, <2>4, <2>5, <2>7, HelperContext
    DEF DataInv, CopyIsComplete, OwnerHasEveryWrite, VolumeInv, Holding
  <2>10. DataInv'
    BY <2>5, <2>9, HelperContext DEF DataInv, OwnerHasEveryWrite, Nodes
  <2> QED  BY <2>4, <2>5, <2>6, <2>8, <2>10 DEF HelperKeeps
(* The promotion renames a complete copy, or finds it renamed.              *)
<1>PromoteRenameStep.
  ASSUME IInv, PromoteRename, UNCHANGED <<mv, vol, written, cluster>>
  PROVE  HelperKeeps
  <2> USE <1>PromoteRenameStep
  <2> DEFINE moves == ~disk.promoted /\ disk.meta /\ disk.incoming # 0 /\ disk.dst = 0
             stays == \/ disk.promoted /\ disk.dst # 0 /\ ~(disk.meta /\ disk.incoming # 0)
                      \/ ~disk.promoted /\ disk.meta /\ disk.incoming = 0 /\ disk.dst # 0
             x == [state |-> jobs["promote"].state, pc |-> "written"]
  <2>1. /\ jobs \in JobSets /\ jobs.promote \in JobRecords /\ "promote" \in JobKind
        /\ jobs.promote.state \in {"active", "deleting"} /\ jobs.promote.pc = "authorized"
        /\ jobs.copy.pc \notin Holding
        /\ IF moves \/ stays THEN JobAt("promote", "written") ELSE JobFails("promote")
        /\ disk' = IF moves THEN [disk EXCEPT !.dst = disk.incoming, !.incoming = 0] ELSE disk
    BY HelperContext, JobTypes DEF PromoteRename, Running, Unlocked, JobKind, Holding
  <2>2. mv.promote /\ mv.intent /\ disk.receipt
    BY <2>1, HelperContext DEF JobInv, PlanInv
  <2>3. CASE ~(moves \/ stays)
    BY <2>1, <2>3, <1>HelperEndsStep
  <2>4. CASE moves \/ stays
    <3>1. x \in JobRecords /\ x.state = jobs.promote.state /\ x.pc = "written"
      BY <2>1, JobRecordTypes
    <3>2. jobs' = [jobs EXCEPT !["promote"] = x]
      BY <2>1, <2>4, <1>JobAtIs
    <3> HIDE DEF x
    <3>3. /\ jobs' \in JobSets /\ jobs'.promote = x
          /\ jobs'.copy = jobs.copy /\ jobs'.verify = jobs.verify
      <4>1. /\ jobs' \in JobSets
            /\ jobs'.promote = IF "promote" = "promote" THEN x ELSE jobs.promote
            /\ jobs'.copy = IF "promote" = "copy" THEN x ELSE jobs.copy
            /\ jobs'.verify = IF "promote" = "verify" THEN x ELSE jobs.verify
        BY <2>1, <3>1, <3>2, JobWrite, Zenon
      <4> QED  BY <4>1
    <3>4. /\ disk' \in Disks /\ disk'.src = disk.src
          /\ disk'.dst = (IF moves THEN disk.incoming ELSE disk.dst)
          /\ disk'.incoming = (IF moves THEN 0 ELSE disk.incoming)
          /\ disk'.promoted = disk.promoted /\ disk'.receipt = disk.receipt
          /\ disk'.meta = disk.meta
      BY <2>1, HelperContext, Zenon DEF Disks
    <3>5. Progress
      BY <2>1, <3>4 DEF Progress, Quiet, Retired, NoJob
    <3>6. JobInv'
      BY <2>1, <2>2, <3>1, <3>3, <3>4, HelperContext DEF JobInv, JobKind, Holding
    <3>7. vol.phase = "Moving" => CopyIsComplete'
      BY <2>1, <2>2, <2>4, <3>1, <3>3, <3>4, HelperContext
        DEF DataInv, CopyIsComplete, Holding
    <3>8. OwnerHasEveryWrite'
      BY <3>4, HelperContext DEF DataInv, OwnerHasEveryWrite, Nodes
    <3>9. DataInv'
      BY <3>7, <3>8, HelperContext DEF DataInv
    <3> QED  BY <3>3, <3>4, <3>5, <3>6, <3>9 DEF HelperKeeps
  <2> QED  BY <2>3, <2>4
(* The step itself.                                                         *)
<1>1. /\ UNCHANGED <<vol, mv, journal, ctl, cluster, pods, placement, written, pool>>
      /\ faults' \in 0..MaxFaults
  BY MobilityAssumption DEF Helper, HelperFault, Fault, IInv, TypeOK
<1>2. jobs'.purge = jobs.purge
  <2>1. jobs \in JobSets
    BY HelperContext
  <2>2. \E y : jobs' = [jobs EXCEPT ![k] = y]
    BY Zenon DEF Helper, HelperFault, HelperAuthorize, HelperFinish, HelperRefused,
       HelperGone, CopyBegin, CopyEnd, PromoteRename, JobAt, JobFails
  <2> QED  BY <2>1, <2>2 DEF JobSets, JobKind
<1>3. HelperKeeps
  <2>1. CASE HelperAuthorize(k)
    BY <1>1, <2>1, <1>HelperAuthorizeStep
  <2>2. CASE HelperFinish(k)
    BY <1>1, <2>2, <1>HelperFinishStep
  <2>3. CASE HelperRefused(k) \/ HelperGone(k)
    BY <1>1, <2>3, <1>HelperEndsStep DEF HelperRefused, HelperGone
  <2>4. CASE k = "copy" /\ CopyBegin
    BY <1>1, <2>4, <1>CopyBeginStep
  <2>5. CASE k = "copy" /\ CopyEnd
    BY <1>1, <2>5, <1>CopyEndStep
  <2>6. CASE k = "promote" /\ PromoteRename
    BY <1>1, <2>6, <1>PromoteRenameStep
  <2>7. CASE HelperFault(k)
    BY <1>1, <2>7, <1>HelperEndsStep DEF HelperFault
  <2> QED  BY <2>1, <2>2, <2>3, <2>4, <2>5, <2>6, <2>7 DEF Helper
<1> QED  BY <1>1, <1>2, <1>3, <1>HelperFrame

-----------------------------------------------------------------------------
(* The cleanup executor and the scanner.                                    *)

(* Purging the incoming copy touches no serving directory.                  *)
LEMMA IncomingPurged ==
  ASSUME NEW d \in Disks
  PROVE  LET e == [d EXCEPT !.incoming = 0, !.meta = FALSE]
         IN /\ e \in Disks /\ e.receipt = d.receipt /\ e.promoted = d.promoted
            /\ e.src = d.src /\ e.dst = d.dst
<1> DEFINE e == [d EXCEPT !.incoming = 0, !.meta = FALSE]
<1>1. /\ e.receipt = d.receipt /\ e.promoted = d.promoted
      /\ e.src = d.src /\ e.dst = d.dst
  BY DEF Disks
<1>2. e \in Disks
  <2>1. e = [[d EXCEPT !.incoming = 0] EXCEPT !.meta = FALSE]
    BY DEF Disks
  <2>2. \A c \in Disks : [c EXCEPT !.incoming = 0] \in Disks
    BY DEF Disks
  <2>3. \A c \in Disks : [c EXCEPT !.meta = FALSE] \in Disks
    BY Zenon DEF Disks
  <2> QED  BY <2>1, <2>2, <2>3, Zenon
<1> QED  BY <1>1, <1>2

(* The executor's purge keeps the invariant: the journal never names the    *)
(* owner.                                                                   *)
LEMMA ExecutorStep ==
  ASSUME IInv, Executor \/ CleanupReview
  PROVE  IInv'
<1>1. /\ UNCHANGED <<vol, mv, cluster, pods, placement, written, pool>>
      /\ faults' \in 0..MaxFaults
  BY MobilityAssumption DEF Executor, CleanupReview, Fault, IInv, TypeOK
<1>2. /\ journal \in Journals /\ jobs \in JobSets /\ disk \in Disks /\ ctl \in Passes
      /\ ctl.step # "idle" => ctl.d \in Decisions
  BY DEF IInv, TypeOK
<1>3. PICK p \in {"Running", "Purged", "NeedsReview"}, u \in {"idle", "authorized"} :
        /\ journal.phase = "Running"
        /\ journal' = [journal EXCEPT !.phase = p] /\ jobs' = [jobs EXCEPT !.purge = u]
        /\ u = "authorized" => p = "Running"
        /\ \/ disk' = disk
           \/ /\ disk' = IF journal.target = "incoming"
                         THEN [disk EXCEPT !.incoming = 0, !.meta = FALSE]
                         ELSE [disk EXCEPT ![journal.target] = 0]
        /\ ctl' = ctl \/ ctl' = Stale
  <2>1. CASE PurgeAuthorize
    <3>1. journal.phase = "Running" /\ journal' = journal /\ disk' = disk /\ ctl' = ctl
      BY <2>1 DEF PurgeAuthorize, CleanupAuthority
    <3>2. journal = [journal EXCEPT !.phase = "Running"]
      BY <1>2, <3>1 DEF Journals
    <3>3. jobs' = [jobs EXCEPT !.purge = "authorized"]
      BY <2>1 DEF PurgeAuthorize
    <3> QED  BY <3>1, <3>2, <3>3
  <2>2. CASE Purge
    <3>1. journal.phase = "Running"
      BY <2>2 DEF Purge, IInv, JournalInv
    <3> QED  BY <2>2, <3>1 DEF Purge
  <2>3. CASE CleanupReview
    <3>1. jobs = [jobs EXCEPT !.purge = "idle"]
      BY <1>2, <2>3 DEF CleanupReview, JobSets
    <3> QED  BY <2>3, <3>1 DEF CleanupReview
  <2> QED  BY <2>1, <2>2, <2>3 DEF Executor
<1>4. /\ journal' \in Journals /\ journal'.phase = p /\ journal'.target = journal.target
      /\ journal'.reason = journal.reason
  BY <1>2, <1>3 DEF Journals
<1>5. /\ jobs' \in JobSets /\ jobs'.purge = u /\ jobs'.copy = jobs.copy
      /\ jobs'.promote = jobs.promote /\ jobs'.verify = jobs.verify
  <2> HIDE DEF JobRecords
  <2> QED  BY <1>2, <1>3 DEF JobSets
<1>6. /\ mv.intent /\ vol.phase # "Moving" /\ journal.target \in {"src", "incoming", "dst"}
      /\ journal.target # vol.owner /\ vol.owner \in {"src", "dst"}
  <2>1. journal.target \in {"none", "src", "incoming", "dst"} /\ vol.owner \in Nodes
    BY <1>2, HelperContext DEF Journals
  <2> QED  BY <1>3, <2>1 DEF IInv, JournalInv, CleanupSparesOwner, Nodes
<1>7. /\ disk' \in Disks /\ disk'.receipt = disk.receipt /\ disk'.promoted = disk.promoted
      /\ disk'[vol.owner] = disk[vol.owner]
  <2>1. CASE journal.target = "src"
    <3>1. disk' = disk \/ disk' = [disk EXCEPT !["src"] = 0]
      BY <1>3, <2>1
    <3> QED  BY <1>2, <1>6, <2>1, <3>1 DEF Disks
  <2>2. CASE journal.target = "dst"
    <3>1. disk' = disk \/ disk' = [disk EXCEPT !["dst"] = 0]
      BY <1>3, <2>2
    <3> QED  BY <1>2, <1>6, <2>2, <3>1 DEF Disks
  <2>3. CASE journal.target = "incoming"
    <3>1. disk' = disk \/ disk' = [disk EXCEPT !.incoming = 0, !.meta = FALSE]
      BY <1>3, <2>3
    <3>2. CASE disk' = [disk EXCEPT !.incoming = 0, !.meta = FALSE]
      <4>1. /\ disk' \in Disks /\ disk'.receipt = disk.receipt
            /\ disk'.promoted = disk.promoted /\ disk'.src = disk.src /\ disk'.dst = disk.dst
        BY <1>2, <3>2, IncomingPurged, Zenon
      <4> QED  BY <1>6, <4>1
    <3> QED  BY <1>2, <3>1, <3>2
  <2> QED  BY <1>6, <2>1, <2>2, <2>3
<1>8. ctl' \in Passes /\ SamePass
  BY <1>2, <1>3, StalePass DEF IInv, SamePass
<1>9. Bystander
  <2>1. SameMove /\ SameVolume
    BY <1>1 DEF IInv, VolumeInv, SameMove, SameVolume
  <2>2. Progress
    BY <1>1, <1>5, <1>7 DEF Progress, Quiet, Retired
  <2> QED  BY <1>6, <1>8, <2>1, <2>2 DEF Bystander
<1>10. TypeOK'
  BY <1>1, <1>2, <1>4, <1>5, <1>7, <1>8 DEF IInv, TypeOK, SamePass
<1>11. PodInv'
  BY <1>1 DEF IInv, PodInv, MountsAreFenced
<1>12. JournalInv'
  BY <1>1, <1>3, <1>4, <1>5, <1>6 DEF JournalInv, CleanupSparesOwner
<1>13. JobInv'
  BY <1>1, <1>5, <1>6, <1>7, HelperContext DEF JobInv, JobKind, Holding
<1>14. DataInv'
  BY <1>1, <1>6, <1>7, HelperContext DEF DataInv, OwnerHasEveryWrite
<1> QED  BY <1>9, <1>10, <1>11, <1>12, <1>13, <1>14, BystanderKeeps DEF IInv

(* Steps that touch neither journal, Jobs nor disks.                        *)
LEMMA QuietStep ==
  ASSUME IInv, TypeOK', PodInv', SameMove, SameVolume, SamePass, Retired => Retired',
         vol.phase = "Moving" /\ mv.intent => vol'.published = {},
         UNCHANGED <<journal, jobs, disk, written>>
  PROVE  IInv'
<1>1. Bystander
  BY DEF Bystander, Progress, Quiet
<1>2. JournalInv'
  BY DEF IInv, JournalInv, CleanupSparesOwner, SameMove, SameVolume
<1>3. JobInv'
  BY DEF IInv, JobInv, SameMove
<1>4. DataInv'
  BY Zenon DEF IInv, DataInv, CopyIsComplete, OwnerHasEveryWrite, SameMove, SameVolume
<1> QED  BY <1>1, <1>2, <1>3, <1>4, BystanderKeeps DEF IInv

(* A scan keeps the invariant.                                              *)
LEMMA ScannerStep ==
  ASSUME IInv, Scanner
  PROVE  IInv'
<1> USE DEF Scanner
<1>1. pool' \in [generation : Nat, inventory : Inventories, scan : Inventories]
  <2>1. pool \in [generation : Nat, inventory : Inventories, scan : Inventories]
    BY DEF IInv, TypeOK
  <2>2. DestinationView \in Inventories /\ NoInventory \in Inventories
    BY <2>1 DEF DestinationView, NoInventory, Inventories
  <2> HIDE DEF Inventories, DestinationView
  <2> QED  BY <2>1, <2>2, Zenon DEF ScanBegin, ScanEnd
<1>2. TypeOK'
  BY <1>1 DEF IInv, TypeOK
<1>3. PodInv'
  BY Zenon DEF IInv, PodInv, MountsAreFenced
<1>4. SameMove /\ SameVolume /\ SamePass /\ Retired' = Retired
  BY DEF IInv, VolumeInv, SameMove, SameVolume, SamePass, Retired
<1>5. vol.phase = "Moving" /\ mv.intent => vol'.published = {}
  BY DEF IInv, VolumeInv
<1> QED  BY <1>2, <1>3, <1>4, <1>5, QuietStep

-----------------------------------------------------------------------------
(* The workload, its kubelets and the operator.                             *)

(* The records of Pods.                                                     *)
LEMMA PodTypes ==
  /\ \A s \in {"none", "held", "bound", "terminating"}, n \in Nodes \cup {"none"},
        m \in MountStates : [state |-> s, node |-> n, mount |-> m] \in PodRecords
  /\ \A x \in PodRecords :
        /\ x.state \in {"none", "held", "bound", "terminating"}
        /\ x.node \in Nodes \cup {"none"} /\ x.mount \in MountStates
        /\ \A m : [x EXCEPT !.mount = m] = [state |-> x.state, node |-> x.node, mount |-> m]
        /\ \A s : [x EXCEPT !.state = s] = [state |-> s, node |-> x.node, mount |-> x.mount]
        /\ \A n : [x EXCEPT !.node = n] = [state |-> x.state, node |-> n, mount |-> x.mount]
<1>1. ASSUME NEW s \in {"none", "held", "bound", "terminating"},
             NEW n \in Nodes \cup {"none"}, NEW m \in MountStates
      PROVE  [state |-> s, node |-> n, mount |-> m] \in PodRecords
  BY DEF PodRecords
<1>2. ASSUME NEW x \in PodRecords
      PROVE  /\ x.state \in {"none", "held", "bound", "terminating"}
             /\ x.node \in Nodes \cup {"none"} /\ x.mount \in MountStates
  BY DEF PodRecords
<1>3. ASSUME NEW x \in PodRecords, NEW v
      PROVE  /\ [x EXCEPT !.mount = v] = [state |-> x.state, node |-> x.node, mount |-> v]
             /\ [x EXCEPT !.state = v] = [state |-> v, node |-> x.node, mount |-> x.mount]
             /\ [x EXCEPT !.node = v] = [state |-> x.state, node |-> v, mount |-> x.mount]
  BY DEF PodRecords
<1> QED  BY <1>1, <1>2, <1>3, Zenon

(* One Pod changes.  It keeps the fence of mounts when its new record is    *)
(* without a mount, or has the mount it had.                                *)
LEMMA PodWrite ==
  ASSUME IInv, NEW c \in Consumers, NEW x \in PodRecords, pods' = [pods EXCEPT ![c] = x],
         vol' = vol,
         x.state \in {"none", "held"} => x.mount = "no",
         x.mount \in {"begun", "yes"} =>
            pods[c].mount \in {"begun", "yes"} /\ x.node = pods[c].node
  PROVE  pods' \in [Consumers -> PodRecords] /\ PodInv'
<1>1. pods \in [Consumers -> PodRecords]
  BY DEF IInv, TypeOK
<1>2. pods' \in [Consumers -> PodRecords] /\ pods'[c] = x
      /\ \A o \in Consumers \ {c} : pods'[o] = pods[o]
  BY <1>1
<1>3. PodInv'
  BY <1>2 DEF IInv, PodInv, MountsAreFenced
<1> QED  BY <1>2, <1>3

(* A step of the workload that leaves the Volume as it is.                  *)
LEMMA PodOnly ==
  ASSUME IInv, pods' \in [Consumers -> PodRecords], PodInv', faults' \in 0..MaxFaults,
         UNCHANGED <<vol, mv, journal, ctl, cluster, placement, jobs, disk, written, pool>>
  PROVE  IInv'
<1>1. TypeOK'
  BY DEF IInv, TypeOK
<1>2. SameMove /\ SameVolume /\ SamePass /\ Retired' = Retired
  BY DEF IInv, VolumeInv, SameMove, SameVolume, SamePass, Retired
<1>3. vol.phase = "Moving" /\ mv.intent => vol'.published = {}
  BY DEF IInv, VolumeInv
<1> QED  BY <1>1, <1>2, <1>3, QuietStep

(* What kubelet and workload do keeps the invariant: a mount is only made   *)
(* on the owner, under a publication.                                       *)
LEMMA WorkloadStep ==
  ASSUME IInv, Workload
  PROVE  IInv'
<1>1. /\ pods \in [Consumers -> PodRecords] /\ vol \in Volumes /\ faults' \in 0..MaxFaults
      /\ \A c \in Consumers : pods[c] \in PodRecords
      /\ "old" \in Consumers /\ "new" \in Consumers /\ vol.owner \in Nodes
      /\ UNCHANGED <<mv, journal, ctl, cluster, placement, jobs, disk, written, pool>>
  BY HelperContext DEF IInv, TypeOK, Workload, Consumers
<1>2. ASSUME NEW c \in Consumers, NEW x \in PodRecords, pods' = [pods EXCEPT ![c] = x],
             vol' = vol,
             x.state \in {"none", "held"} => x.mount = "no",
             x.mount \in {"begun", "yes"} =>
                pods[c].mount \in {"begun", "yes"} /\ x.node = pods[c].node
      PROVE  IInv'
  <2>1. pods' \in [Consumers -> PodRecords] /\ PodInv'
    BY <1>2, PodWrite, Zenon
  <2> QED  BY <1>1, <1>2, <2>1, PodOnly
<1>3. ASSUME NEW v \in SUBSET Nodes, vol' = [vol EXCEPT !.published = v],
             pods' \in [Consumers -> PodRecords], PodInv',
             vol.phase = "Ready" \/ v \subseteq vol.published
      PROVE  IInv'
  <2>1. /\ vol' \in Volumes /\ SameVolume /\ vol'.published = v
    BY <1>1, <1>3 DEF Volumes, SameVolume
  <2>2. TypeOK'
    BY <1>1, <1>3, <2>1 DEF IInv, TypeOK
  <2>3. SameMove /\ SamePass /\ Retired' = Retired
    BY <1>1 DEF IInv, VolumeInv, SameMove, SamePass, Retired
  <2>4. vol.phase = "Moving" /\ mv.intent => vol'.published = {}
    BY <1>3, <2>1 DEF IInv, VolumeInv
  <2> QED  BY <1>1, <1>3, <2>1, <2>2, <2>3, <2>4, QuietStep
<1>4. CASE MutatePod \/ ReleaseOwnerPlacement
  <2>1. PICK x \in PodRecords :
          /\ x \in {NewPod("held", "none"), NewPod("bound", vol.owner)}
          /\ pods' = [pods EXCEPT !["new"] = x] /\ vol' = vol
    BY <1>1, <1>4, PodTypes, Zenon DEF MutatePod, ReleaseOwnerPlacement, NewPod, MountStates
  <2>2. x.mount = "no"
    BY <2>1 DEF NewPod
  <2> QED  BY <1>1, <1>2, <2>1, <2>2, Zenon
<1>5. ASSUME NEW c \in Consumers, BeginPublish(c)
      PROVE  IInv'
  <2> DEFINE x == [state |-> "bound", node |-> vol.owner, mount |-> "begun"]
  <2>1. pods' = [pods EXCEPT ![c] = x] /\ x \in PodRecords
    <3>1. pods' = [pods EXCEPT ![c] = [pods[c] EXCEPT !.mount = "begun"]]
      BY <1>5, Zenon DEF BeginPublish
    <3>2. pods[c].state = "bound" /\ pods[c].node = vol.owner
      BY <1>5 DEF BeginPublish
    <3>3. [pods[c] EXCEPT !.mount = "begun"] = x
      BY <1>1, <3>2, PodTypes
    <3>4. x \in PodRecords
      BY <1>1, PodTypes, Zenon DEF MountStates
    <3> QED  BY <3>1, <3>3, <3>4, Zenon
  <2>2. /\ vol' = [vol EXCEPT !.published = vol.published \cup {vol.owner}]
        /\ vol.phase = "Ready"
    BY <1>5 DEF BeginPublish
  <2>3. /\ vol.published \cup {vol.owner} \in SUBSET Nodes /\ vol'.owner = vol.owner
        /\ vol'.published = vol.published \cup {vol.owner}
    BY <1>1, <2>2 DEF Volumes
  <2>4. pods' \in [Consumers -> PodRecords] /\ pods'[c] = x
        /\ \A o \in Consumers \ {c} : pods'[o] = pods[o]
    BY <1>1, <2>1
  <2>5. PodInv'
    <3>1. x.state = "bound" /\ x.node = vol.owner /\ x.mount = "begun"
      OBVIOUS
    <3>2. ASSUME NEW o \in Consumers \ {c}
          PROVE  /\ pods'[o].state \in {"none", "held"} => pods'[o].mount = "no"
                 /\ pods'[o].mount \in {"begun", "yes"} =>
                       pods'[o].node = vol'.owner /\ pods'[o].node \in vol'.published
      BY <2>3, <2>4 DEF IInv, PodInv, MountsAreFenced
    <3>3. pods'[c].node = vol'.owner /\ pods'[c].node \in vol'.published
      BY <2>3, <2>4, <3>1
    <3> HIDE DEF x
    <3> QED  BY <2>4, <3>1, <3>2, <3>3 DEF PodInv, MountsAreFenced
  <2> QED  BY <1>3, <2>2, <2>3, <2>4, <2>5
<1>6. ASSUME NEW c \in Consumers, Mount(c) \/ Unmount(c)
      PROVE  IInv'
  <2>1. PICK m \in {"yes", "unmounted"} :
          /\ pods' = [pods EXCEPT ![c].mount = m] /\ vol' = vol
          /\ m = "yes" => pods[c].mount = "begun"
          /\ m = "unmounted" => pods[c].state = "terminating"
    BY <1>6 DEF Mount, Unmount
  <2> DEFINE x == [state |-> pods[c].state, node |-> pods[c].node, mount |-> m]
  <2>2. pods' = [pods EXCEPT ![c] = x] /\ x \in PodRecords
    <3>1. pods' = [pods EXCEPT ![c] = [pods[c] EXCEPT !.mount = m]]
      BY <2>1, Zenon
    <3> QED  BY <1>1, <3>1, PodTypes, Zenon DEF MountStates
  <2>3. x.state \notin {"none", "held"}
    BY <2>1 DEF IInv, PodInv
  <2>4. x.mount \in {"begun", "yes"} =>
            pods[c].mount \in {"begun", "yes"} /\ x.node = pods[c].node
    BY <2>1
  <2> HIDE DEF x
  <2> QED  BY <1>2, <2>1, <2>2, <2>3, <2>4, Zenon
<1>7. ASSUME NEW c \in Consumers, ReconcilePublished(c)
      PROVE  IInv'
  <2> DEFINE node == pods[c].node
             still == \E o \in Consumers \ {c} : pods[o].node = node /\ pods[o].mount = "yes"
             x == NewPod("none", "none")
  <2>1. /\ pods' = [pods EXCEPT ![c] = x]
        /\ \A o \in Consumers \ {c} : ~(pods[o].node = node /\ pods[o].mount = "begun")
        /\ vol' = IF vol.owner = node /\ ~still
                  THEN [vol EXCEPT !.published = vol.published \ {node}] ELSE vol
    BY <1>7 DEF ReconcilePublished
  <2>2. x \in PodRecords /\ x.mount = "no" /\ x.state = "none"
    BY PodTypes, Zenon DEF NewPod, MountStates
  <2>3. CASE vol.owner = node /\ ~still
    <3>1. /\ vol.published \ {node} \in SUBSET Nodes /\ vol'.owner = vol.owner
          /\ vol'.published = vol.published \ {node}
          /\ vol.published \ {node} \subseteq vol.published
      BY <1>1, <2>1, <2>3 DEF Volumes
    <3>2. pods' \in [Consumers -> PodRecords] /\ pods'[c] = x
          /\ \A o \in Consumers \ {c} : pods'[o] = pods[o]
      BY <1>1, <2>1, <2>2
    <3>3. PodInv'
      <4> HIDE DEF x
      <4> QED  BY <2>1, <2>2, <2>3, <3>1, <3>2 DEF IInv, PodInv, MountsAreFenced
    <3> QED  BY <1>3, <2>1, <2>3, <3>1, <3>2, <3>3, Zenon
  <2>4. CASE ~(vol.owner = node /\ ~still)
    <3> HIDE DEF x, still, node
    <3> QED  BY <1>2, <2>1, <2>2, <2>4, Zenon
  <2> QED  BY <2>3, <2>4
<1> QED  BY <1>4, <1>5, <1>6, <1>7 DEF Workload

(* A mount is on the owner, so a write reaches the owner's directory; under *)
(* a disk plan nothing is mounted while the copy may still be promoted.     *)
LEMMA WriteStep ==
  ASSUME IInv, NEW c \in Consumers, Write(c)
  PROVE  IInv'
<1>1. /\ UNCHANGED <<vol, mv, journal, ctl, cluster, pods, placement, jobs, pool, faults>>
      /\ written' = written + 1 /\ written \in Nat /\ written >= 1 /\ disk \in Disks
      /\ disk[vol.owner] = written
  BY HelperContext DEF Write, DataInv, OwnerHasEveryWrite
<1>2. pods[c].node = vol.owner /\ vol.published # {}
  BY Zenon DEF Write, IInv, PodInv, MountsAreFenced
<1>3. ~(vol.phase = "Moving" /\ mv.intent)
  BY <1>2 DEF IInv, VolumeInv
<1>4. disk' = [disk EXCEPT ![vol.owner] = written']
  BY <1>2 DEF Write
<1>5. /\ disk' \in Disks /\ disk'[vol.owner] = written' /\ disk'.receipt = disk.receipt
      /\ disk'.promoted = disk.promoted /\ disk'.meta = disk.meta
      /\ disk'.incoming = disk.incoming
      /\ vol.owner = "src" => disk'.dst = disk.dst
  <2>1. CASE vol.owner = "src"
    BY <1>1, <1>4, <2>1 DEF Disks
  <2>2. CASE vol.owner = "dst"
    BY <1>1, <1>4, <2>2 DEF Disks
  <2> QED  BY <2>1, <2>2, HelperContext DEF Nodes
<1>6. ~mv.intent => vol.owner = "src"
  BY HelperContext DEF VolumeInv, Nodes
<1>7. JobInv'
  BY <1>1, <1>5, <1>6, HelperContext DEF JobInv
<1>8. DataInv'
  BY <1>1, <1>3, <1>5 DEF DataInv, OwnerHasEveryWrite
<1>9. Bystander
  <2>1. SameMove /\ SameVolume /\ SamePass
    BY <1>1 DEF IInv, VolumeInv, SameMove, SameVolume, SamePass
  <2>2. Progress
    BY <1>1, <1>5 DEF Progress, Quiet, Retired
  <2> QED  BY <1>3, <2>1, <2>2 DEF Bystander
<1>10. TypeOK'
  BY <1>1, <1>5 DEF IInv, TypeOK
<1>11. PodInv'
  BY <1>1 DEF IInv, PodInv, MountsAreFenced
<1>12. JournalInv'
  BY <1>1 DEF IInv, JournalInv, CleanupSparesOwner
<1> QED  BY <1>7, <1>8, <1>9, <1>10, <1>11, <1>12, BystanderKeeps DEF IInv

(* The node service restarts, or the workload controller rolls a Pod.       *)
LEMMA PodFaultStep ==
  ASSUME IInv, NEW c \in Consumers, PublishInterrupted(c) \/ RollPod(c)
  PROVE  IInv'
<1>1. /\ pods \in [Consumers -> PodRecords] /\ pods[c] \in PodRecords
      /\ faults' \in 0..MaxFaults /\ faults \in 0..MaxFaults
      /\ UNCHANGED <<vol, mv, journal, ctl, cluster, placement, jobs, disk, written, pool>>
  BY MobilityAssumption DEF IInv, TypeOK, PublishInterrupted, RollPod, Fault
<1>2. PICK x \in PodRecords :
        /\ pods' = [pods EXCEPT ![c] = x] /\ x.node = pods[c].node
        /\ \/ x.mount = "no"
           \/ x.mount = pods[c].mount /\ x.state = "terminating"
  <2>1. CASE PublishInterrupted(c)
    <3> DEFINE x == [state |-> pods[c].state, node |-> pods[c].node, mount |-> "no"]
    <3>1. pods' = [pods EXCEPT ![c] = [pods[c] EXCEPT !.mount = "no"]]
      BY <2>1, Zenon DEF PublishInterrupted
    <3>2. x \in PodRecords /\ pods' = [pods EXCEPT ![c] = x]
      BY <1>1, <3>1, PodTypes, Zenon DEF MountStates
    <3> QED  BY <3>2, Zenon
  <2>2. CASE RollPod(c)
    <3> DEFINE x == [state |-> "terminating", node |-> pods[c].node, mount |-> pods[c].mount]
    <3>1. pods' = [pods EXCEPT ![c] = [pods[c] EXCEPT !.state = "terminating"]]
      BY <2>2, Zenon DEF RollPod
    <3>2. x \in PodRecords /\ pods' = [pods EXCEPT ![c] = x]
      BY <1>1, <3>1, PodTypes, Zenon
    <3> QED  BY <3>2, Zenon
  <2> QED  BY <2>1, <2>2
<1>3. pods' \in [Consumers -> PodRecords] /\ PodInv'
  BY <1>1, <1>2, PodWrite, Zenon
<1> QED  BY <1>1, <1>3, PodOnly

(* The records of the reservation Pod.                                      *)
LEMMA PlacementTypes ==
  /\ \A p \in Placements :
        /\ p.state \in {"none", "pending", "scheduled", "terminating"} /\ p.exact \in BOOLEAN
        /\ \A s : [p EXCEPT !.state = s] = [state |-> s, exact |-> p.exact]
        /\ \A e : [p EXCEPT !.exact = e] = [state |-> p.state, exact |-> e]
  /\ \A s \in {"none", "pending", "scheduled", "terminating"}, e \in BOOLEAN :
        [state |-> s, exact |-> e] \in Placements
  BY DEF Placements

(* The reservation Pod is scheduled, preempted or gone.                     *)
LEMMA SchedulerStep ==
  ASSUME IInv, Scheduler \/ Preempt
  PROVE  IInv'
<1>1. /\ placement \in Placements /\ faults' \in 0..MaxFaults
      /\ UNCHANGED <<vol, mv, journal, ctl, cluster, pods, jobs, disk, written, pool>>
  BY MobilityAssumption DEF IInv, TypeOK, Scheduler, Preempt, Fault
<1>2. placement' \in Placements
  <2>1. \/ \E s \in {"scheduled", "terminating"} : placement' = [placement EXCEPT !.state = s]
        \/ placement' = [state |-> "none", exact |-> FALSE]
    BY DEF Scheduler, Preempt
  <2>2. \A s \in {"scheduled", "terminating"} : [placement EXCEPT !.state = s] \in Placements
    BY <1>1 DEF Placements
  <2>3. [state |-> "none", exact |-> FALSE] \in Placements
    BY PlacementTypes, Zenon
  <2> QED  BY <2>1, <2>2, <2>3, Zenon
<1>3. TypeOK'
  BY <1>1, <1>2 DEF IInv, TypeOK
<1>4. PodInv'
  BY <1>1 DEF IInv, PodInv, MountsAreFenced
<1>5. SameMove /\ SameVolume /\ SamePass /\ Retired' = Retired
  BY <1>1 DEF IInv, VolumeInv, SameMove, SameVolume, SamePass, Retired
<1>6. vol.phase = "Moving" /\ mv.intent => vol'.published = {}
  BY <1>1 DEF IInv, VolumeInv
<1> QED  BY <1>1, <1>3, <1>4, <1>5, <1>6, QuietStep

(* The operator's writes: they touch no decision of the Move, and a Move    *)
(* under its finalizer outlives a deletion request.                         *)
LEMMA OperatorStep ==
  ASSUME IInv, Operator
  PROVE  IInv'
<1>1. /\ UNCHANGED <<vol, journal, placement, jobs, disk, written, pool, faults>>
      /\ mv \in Moves /\ ctl \in Passes /\ pods \in [Consumers -> PodRecords]
      /\ cluster \in [claim : {"bound", "closing", "retired"}, cordoned : BOOLEAN]
      /\ \A c \in Consumers : pods[c] \in PodRecords
  BY DEF Operator, IInv, TypeOK
<1>2. mv' \in Moves /\ SameMove /\ ctl' \in Passes /\ SamePass
  <2>1. CASE mv' = mv /\ ctl' = ctl
    BY <1>1, <2>1 DEF IInv, VolumeInv, SameMove, SamePass
  <2>2. CASE RequestRecovery
    <3>1. mv' = [mv EXCEPT !.requested = TRUE] /\ ctl' = Stale
      BY <2>2 DEF RequestRecovery
    <3>2. mv' \in Moves
      BY <1>1, <3>1, Zenon DEF Moves
    <3>3. SameMove
      BY <1>1, <3>1 DEF IInv, VolumeInv, SameMove, Moves
    <3> QED  BY <3>1, <3>2, <3>3, StalePass DEF IInv
  <2>3. CASE DeleteMove
    <3>1. mv' = [mv EXCEPT !.deleting = TRUE, !.exists = mv.protected] /\ ctl' = Stale
      BY <2>3 DEF DeleteMove
    <3>2. mv' \in Moves
      BY <1>1, <3>1, Zenon DEF Moves
    <3>3. SameMove
      BY <1>1, <3>1 DEF SameMove, Moves
    <3> QED  BY <3>1, <3>2, <3>3, StalePass DEF IInv
  <2> QED
    BY <2>1, <2>2, <2>3 DEF Operator, Uncordon, CloseWorkload, RetireClaim
<1>3. /\ cluster' \in [claim : {"bound", "closing", "retired"}, cordoned : BOOLEAN]
      /\ Retired => Retired'
  BY <1>1, Zenon
    DEF Operator, Uncordon, RequestRecovery, DeleteMove, CloseWorkload, RetireClaim, Retired
<1>4. pods' \in [Consumers -> PodRecords] /\ PodInv'
  <2>1. CASE pods' = pods
    BY <1>1, <2>1 DEF IInv, PodInv, MountsAreFenced
  <2>2. CASE CloseWorkload
    <3>1. \A c \in Consumers : NewPod("none", "none") \in PodRecords
          /\ [pods[c] EXCEPT !.state = "terminating"] =
                [state |-> "terminating", node |-> pods[c].node, mount |-> pods[c].mount]
          /\ [pods[c] EXCEPT !.state = "terminating"] \in PodRecords
      <4>1. NewPod("none", "none") \in PodRecords
        BY PodTypes, Zenon DEF NewPod, MountStates
      <4>2. ASSUME NEW x \in PodRecords
            PROVE  /\ [x EXCEPT !.state = "terminating"] =
                        [state |-> "terminating", node |-> x.node, mount |-> x.mount]
                   /\ [x EXCEPT !.state = "terminating"] \in PodRecords
        BY PodTypes
      <4> QED  BY <1>1, <4>1, <4>2
    <3>2. \A c \in Consumers :
            /\ pods'[c] \in PodRecords
            /\ \/ pods'[c] = pods[c]
               \/ pods'[c] = NewPod("none", "none")
               \/ pods'[c] = [state |-> "terminating", node |-> pods[c].node,
                              mount |-> pods[c].mount]
      BY <1>1, <2>2, <3>1 DEF CloseWorkload
    <3>3. pods' \in [Consumers -> PodRecords]
      BY <2>2, <3>2, ZenonT(30) DEF CloseWorkload
    <3>4. \A c \in Consumers :
            /\ pods'[c].state \in {"none", "held"} => pods'[c].mount = "no"
            /\ pods'[c].mount \in {"begun", "yes"} =>
                  pods[c].mount \in {"begun", "yes"} /\ pods'[c].node = pods[c].node
      <4> TAKE c \in Consumers
      <4>1. CASE pods'[c] = pods[c]
        BY <4>1 DEF IInv, PodInv
      <4>2. CASE pods'[c] = NewPod("none", "none")
        BY <4>2 DEF NewPod
      <4>3. CASE pods'[c] = [state |-> "terminating", node |-> pods[c].node,
                             mount |-> pods[c].mount]
        BY <4>3
      <4> QED  BY <3>2, <4>1, <4>2, <4>3
    <3>5. PodInv'
      BY <1>1, <3>4 DEF IInv, PodInv, MountsAreFenced
    <3> QED  BY <3>3, <3>5
  <2> QED
    BY <2>1, <2>2 DEF Operator, Uncordon, RequestRecovery, DeleteMove, RetireClaim
<1>5. TypeOK'
  BY <1>1, <1>2, <1>3, <1>4 DEF IInv, TypeOK, SamePass
<1>6. SameVolume /\ (vol.phase = "Moving" /\ mv.intent => vol'.published = {})
  BY <1>1 DEF IInv, VolumeInv, SameVolume
<1> QED  BY <1>1, <1>2, <1>3, <1>4, <1>5, <1>6, QuietStep

-----------------------------------------------------------------------------
(* The controller.  First what becomes of the pass, then what becomes of    *)
(* the rest.                                                                *)

(* The typed parts of the invariant an effect starts from.                  *)
LEMMA PassContext ==
  ASSUME IInv
  PROVE  /\ vol \in Volumes /\ mv \in Moves /\ journal \in Journals /\ ctl \in Passes
         /\ ctl.vol \in Volumes \cup {NoVolume} /\ placement \in Placements
         /\ ctl.step # "idle" => ctl.d \in Decisions
         /\ vol.phase \in {"Ready", "Moving", "Blocked"} /\ vol.owner \in {"src", "dst"}
         /\ vol.locked \in BOOLEAN /\ vol.published \in SUBSET Nodes
         /\ mv.phase \in MovePhases /\ mv.recovery \in RecoveryPhases
         /\ mv.hold \in BOOLEAN /\ mv.intent \in BOOLEAN /\ mv.settle \in BOOLEAN
         /\ mv.protected \in BOOLEAN /\ mv.exists \in BOOLEAN
<1>1. /\ vol \in Volumes /\ mv \in Moves /\ journal \in Journals /\ ctl \in Passes
      /\ placement \in Placements /\ (ctl.step # "idle" => ctl.d \in Decisions)
  BY DEF IInv, TypeOK
<1>2. /\ vol.phase \in {"Ready", "Moving", "Blocked"} /\ vol.owner \in {"src", "dst"}
      /\ vol.locked \in BOOLEAN /\ vol.published \in SUBSET Nodes
  BY <1>1 DEF Volumes, Nodes
<1>3. /\ mv.phase \in MovePhases /\ mv.recovery \in RecoveryPhases
      /\ mv.hold \in BOOLEAN /\ mv.intent \in BOOLEAN /\ mv.settle \in BOOLEAN
      /\ mv.protected \in BOOLEAN /\ mv.exists \in BOOLEAN
  BY <1>1 DEF Moves
<1> QED  BY <1>1, <1>2, <1>3, PassTypes

(* A pass that has ended promises nothing.                                  *)
LEMMA EndedPass ==
  ASSUME End
  PROVE  PassKnown'
  BY PassTypes DEF End, PassKnown, PassInv

(* The Volume that an effect compares with is the one the pass has read.    *)
LEMMA SeenMatches ==
  ASSUME IInv, ctl.step \in {"act", "act2"}
  PROVE  /\ ctl.vol # NoVolume <=> ctl.vol.phase \in {"Ready", "Moving", "Blocked"}
         /\ ctl.vol # NoVolume => /\ ctl.vol.phase = vol.phase /\ ctl.vol.owner = vol.owner
                                  /\ ctl.vol.locked = vol.locked
         /\ \A p, o : StateMatches(ctl.vol, p, o) => ctl.vol # NoVolume
<1>1. ctl.vol \in Volumes \cup {NoVolume} /\ vol.phase \in {"Ready", "Moving", "Blocked"}
  BY PassContext
<1>2. ctl.vol # NoVolume <=> ctl.vol.phase \in {"Ready", "Moving", "Blocked"}
  <2>1. NoVolume.phase \notin {"Ready", "Moving", "Blocked"}
    BY DEF NoVolume, Volume
  <2>2. \A v \in Volumes : v.phase \in {"Ready", "Moving", "Blocked"}
    BY DEF Volumes
  <2> QED  BY <1>1, <2>1, <2>2
<1>3. ctl.vol # NoVolume => /\ ctl.vol.phase = vol.phase /\ ctl.vol.owner = vol.owner
                            /\ ctl.vol.locked = vol.locked
  BY DEF IInv, PassInv, SeenIsCurrent
<1>4. \A p, o : StateMatches(ctl.vol, p, o) => ctl.vol # NoVolume
  BY <1>1 DEF StateMatches, NoVolume, Volume
<1> QED  BY <1>2, <1>3, <1>4

(* A pass that has done what it set out to do still knows what it knew.     *)
LEMMA DonePass ==
  ASSUME IInv, ctl.step \in {"act", "act2"}, Done, Achieved, VolumeAdvances,
         Quiet => Quiet' \/ ctl.d.recovery = "none", UNCHANGED <<mv, disk, cluster>>
  PROVE  PassKnown'
<1>1. /\ ctl' \in Passes /\ ctl'.step = "persist" /\ ctl'.d = ctl.d /\ ctl'.vol = ctl.vol
      /\ ctl.d \in Decisions
  <2>1. ctl \in Passes /\ ctl.d \in Decisions
    BY PassContext
  <2> HIDE DEF Decisions, Volumes
  <2> QED  BY <2>1 DEF Done, Passes
<1>2. /\ Outlook(ctl.d) /\ Grounds(ctl.d, ctl.d.action)
  BY DEF IInv, PassInv
<1>3. /\ mv' = mv /\ disk' = disk /\ (Retired => Retired')
      /\ Retired => ServingOrRetired'
  BY DEF Retired, ServingOrRetired
<1>4. \A s, a : At(s, a)' <=> s = "persist" /\ a = ctl.d.action
  BY <1>1 DEF At
<1>5. Outlook(ctl.d)'
  <2>1. /\ ctl'.d.phase \in Committed => vol'.owner = "dst"
        /\ ctl'.d.phase = "Promoting" => disk'.receipt
        /\ ctl'.d.phase = "StartingDisruption" => mv'.hold
        /\ ctl'.d.phase = "Succeeded" => ~vol'.locked
        /\ ctl'.d.recovery = "Recovered" => ~vol'.locked
        /\ ctl'.d.recovery \notin {"none", "Quiescing"} => Quiet'
        /\ ctl'.d.recovery # "none" => mv'.intent
        /\ mv'.phase \in {"Succeeded", "Cancelled"} => ctl'.d.phase = mv'.phase
        /\ mv'.recovery = "Recovered" => ctl'.d.recovery = "Recovered"
    BY <1>1, <1>2, <1>3 DEF Outlook, At, Achieved, VolumeAdvances
  <2>2. ctl'.d.recovery = "Completing" /\ ~mv'.settle => ServingOrRetired'
    BY <1>1, <1>2, <1>3 DEF Outlook, Achieved, VolumeAdvances
  <2>3. ctl'.d.recovery = "Retiring" /\ ~mv'.settle /\ vol'.owner = "dst" => ServingOrRetired'
    BY <1>1, <1>2, <1>3, Zenon DEF Outlook, Achieved, VolumeAdvances, ServingOrRetired
  <2> QED  BY <2>1, <2>2, <2>3, ZenonT(30) DEF Outlook
<1>6. Grounds(ctl.d, ctl.d.action)'
  <2>1. ctl.d' = ctl.d /\ ctl.vol' = ctl.vol
    BY <1>1
  <2>2. /\ vol.owner = "dst" => vol'.owner = "dst"
        /\ ~vol.locked => ~vol'.locked
        /\ ctl.d.action = "StartDisruption" => vol'.locked = vol.locked
        /\ ctl.d.action \in {"ReleaseSource", "ReleasePreparation"} => vol'.phase = vol.phase
    BY DEF VolumeAdvances
  <2>3. \A a : ~At("act", a)' /\ ~At("act2", a)'
    BY <1>4
  <2> DEFINE a == ctl'.d.action
  <2>4. /\ a \in {"ReservePreparation", "StartDisruption", "ClaimSource",
                  "InitializePreparation", "ReleasePreparation"} => ~mv'.intent
        /\ a \in {"ClaimSource", "InitializePreparation"} => mv'.protected
        /\ a = "StartDisruption" =>
              mv'.phase = "StartingDisruption" /\ mv'.hold /\ vol'.locked
        /\ a = "EnsureCapacity" => mv'.phase = "WaitingForCapacity"
        /\ a \in {"ReleaseSource", "ReleasePreparation"} => vol'.phase = "Ready"
        /\ a = "ReleasePreparation" => ctl'.d.phase = "Cancelled"
        /\ a \in {"EnsureCopy", "EnsurePromotion"} =>
              mv'.recovery = "none" /\ ctl'.d.recovery = "none"
        /\ a = "EnsurePromotion" => disk'.receipt
    BY <1>2, <1>3, <2>1, <2>2, ZenonT(30) DEF Grounds
  <2>5. /\ a = "CommitOwner" => vol'.owner = "dst" \/ disk'.promoted
        /\ a = "EnsureCleanup" => vol'.owner = "dst"
        /\ a = "MarkBlocked" =>
              mv'.recovery = "none" /\ ctl'.d.recovery = "none" /\ (mv'.hold \/ mv'.intent)
        /\ a = "RequestSettlement" => mv'.intent /\ Retired'
        /\ a = "FinalizeHistory" => ~vol'.locked
        /\ a = "RetireRecovery" =>
              /\ mv'.recovery = "Retiring" /\ mv'.intent /\ ctl'.vol # NoVolume
              /\ ctl'.d.recovery = "Completing" /\ ~mv'.settle => vol'.owner = "dst"
        /\ a = "ResumeRecovery" =>
              mv'.recovery = "Resuming" /\ ctl'.vol.phase \in {"Ready", "Blocked"}
    BY <1>2, <1>3, <2>1, <2>2, ZenonT(30) DEF Grounds
  <2> QED  BY <2>3, <2>4, <2>5, ZenonT(30) DEF Grounds
<1> QED  BY <1>1, <1>5, <1>6 DEF PassKnown, PassInv

(* The frequent case: the Volume stays as it is.                            *)
LEMMA DoneKeepingVolume ==
  ASSUME IInv, ctl.step \in {"act", "act2"}, Done,
         Quiet => Quiet' \/ ctl.d.recovery = "none",
         ctl.d.action \notin {"CommitOwner", "MarkSucceeded", "CompleteRecovery",
                              "QuiesceRecovery", "RetireRecovery", "ResumeRecovery"},
         UNCHANGED <<vol, mv, disk, cluster>>
  PROVE  PassKnown'
<1>1. Achieved
  BY DEF Achieved
<1>2. VolumeAdvances
  BY DEF VolumeAdvances, ServingOrRetired, Retired
<1> QED  BY <1>1, <1>2, DonePass

(* Effects on the reservation Pod or a Pool, and steps that touch nothing   *)
(* but the pass.                                                            *)
LEMMA PassOnly ==
  ASSUME IInv, PassKnown', placement' \in Placements, faults' \in 0..MaxFaults,
         pool' \in [generation : Nat, inventory : Inventories, scan : Inventories],
         UNCHANGED <<vol, mv, journal, cluster, pods, jobs, disk, written>>
  PROVE  IInv'
<1>1. TypeOK'
  BY DEF IInv, TypeOK, PassKnown
<1>2. PodInv' /\ VolumeInv' /\ PlanInv'
  BY ZenonT(30) DEF IInv, PodInv, MountsAreFenced, VolumeInv, PlanInv
<1>3. PhaseInv'
  BY DEF IInv, PhaseInv, ServingOrRetired, Retired, Quiet
<1>4. JournalInv' /\ JobInv'
  BY DEF IInv, JournalInv, CleanupSparesOwner, JobInv
<1>5. DataInv'
  BY DEF IInv, DataInv, OwnerHasEveryWrite, CopyIsComplete
<1> QED  BY <1>1, <1>2, <1>3, <1>4, <1>5 DEF IInv, PassKnown

(* A crash or a restart of the controller keeps the invariant.              *)
LEMMA CrashStep ==
  ASSUME IInv, Crash
  PROVE  IInv'
<1>1. /\ placement' \in Placements /\ faults' \in 0..MaxFaults
      /\ pool' \in [generation : Nat, inventory : Inventories, scan : Inventories]
  BY MobilityAssumption DEF Crash, IInv, TypeOK
<1> QED  BY <1>1, EndedPass, PassOnly DEF Crash

(* The start of a pass keeps the invariant: the decision is sound for what  *)
(* was observed.                                                            *)
LEMMA ObserveStep ==
  ASSUME IInv, Look
  PROVE  IInv'
<1>1. /\ placement' \in Placements /\ faults' \in 0..MaxFaults
      /\ pool' \in [generation : Nat, inventory : Inventories, scan : Inventories]
  BY MobilityAssumption DEF Look, ObserveCalm, ObserveTroubled, Fault, IInv, TypeOK
<1>2. PassKnown'
  BY LookStep DEF PassKnown
<1> QED  BY <1>1, <1>2, PassOnly DEF Look

(* Effects on consumer Pods.                                                *)
LEMMA PodEffect ==
  ASSUME IInv, PassKnown', pods' \in [Consumers -> PodRecords], PodInv',
         UNCHANGED <<vol, mv, journal, cluster, placement, jobs, disk, written, pool, faults>>
  PROVE  IInv'
<1>1. TypeOK'
  BY DEF IInv, TypeOK, PassKnown
<1>2. VolumeInv' /\ PlanInv'
  BY DEF IInv, VolumeInv, PlanInv
<1>3. PhaseInv'
  BY DEF IInv, PhaseInv, ServingOrRetired, Retired, Quiet
<1>4. JournalInv' /\ JobInv'
  BY DEF IInv, JournalInv, CleanupSparesOwner, JobInv
<1>5. DataInv'
  BY DEF IInv, DataInv, OwnerHasEveryWrite, CopyIsComplete
<1> QED  BY <1>1, <1>2, <1>3, <1>4, <1>5 DEF IInv, PassKnown

(* One Pod changes and keeps its mount, or has none before and after.       *)
LEMMA PodKeepsMount ==
  ASSUME pods \in [Consumers -> PodRecords], NEW c \in Consumers, NEW x \in PodRecords,
         pods' = [pods EXCEPT ![c] = x],
         (x.mount = "yes") = (pods[c].mount = "yes"),
         x.mount = "yes" => x.node = pods[c].node
  PROVE  MountsKept
<1>1. pods'[c] = x /\ \A o \in Consumers \ {c} : pods'[o] = pods[o]
  OBVIOUS
<1> QED  BY <1>1 DEF MountsKept

(* A permitted write of the Volume's status keeps the invariant.            *)
LEMMA VolumeEffect ==
  ASSUME IInv, PassKnown', ServiceWrite,
         UNCHANGED <<mv, journal, cluster, pods, placement, jobs, disk, written, pool, faults>>
  PROVE  IInv'
<1>1. TypeOK'
  BY DEF IInv, TypeOK, PassKnown, ServiceWrite
<1>2. /\ TypeOK /\ PodInv /\ VolumeInv /\ PlanInv /\ PhaseInv /\ JournalInv /\ JobInv /\ DataInv
      /\ mv' = mv /\ disk' = disk /\ journal' = journal /\ pods' = pods /\ jobs' = jobs
      /\ written' = written /\ cluster' = cluster
  BY DEF IInv
<1>3. vol'.owner # vol.owner => mv.intent /\ disk.dst = written /\ journal.target = "none"
  BY <1>2, ZenonT(30) DEF ServiceWrite, JobInv, PlanInv, DataInv, CopyIsComplete, JournalInv
<1>4. PodInv'
  BY <1>2 DEF ServiceWrite, PodInv, MountsAreFenced
<1>5. VolumeInv'
  BY <1>2, <1>3 DEF ServiceWrite, VolumeInv
<1>6. PlanInv'
  BY <1>2 DEF PlanInv
<1>7. PhaseInv'
  <2>1. /\ vol.owner = "dst" => vol'.owner = "dst"
        /\ vol'.owner = "dst" => vol.owner = "dst" \/ vol'.phase = "Ready"
        /\ mv.phase = "Succeeded" \/ mv.recovery = "Recovered" => ~vol'.locked
        /\ vol.phase = "Ready" => vol'.phase = "Ready" \/ Retired \/ mv.recovery = "none"
    BY DEF ServiceWrite
  <2>2. /\ Quiet => Quiet'
        /\ ServingOrRetired => ServingOrRetired' \/ mv.recovery = "none"
        /\ vol'.phase = "Ready" => ServingOrRetired'
    BY <1>2, <2>1 DEF ServingOrRetired, Retired, Quiet
  <2>3. PhaseInv /\ mv' = mv /\ disk' = disk
    BY <1>2
  <2> QED  BY <2>1, <2>2, <2>3 DEF PhaseInv
<1>8. JournalInv'
  BY <1>2, <1>3 DEF ServiceWrite, JournalInv, CleanupSparesOwner
<1>9. JobInv'
  BY <1>2 DEF JobInv
<1>10. DataInv'
  BY <1>2, <1>3 DEF ServiceWrite, DataInv, OwnerHasEveryWrite, CopyIsComplete
<1> QED
  BY <1>1, <1>4, <1>5, <1>6, <1>7, <1>8, <1>9, <1>10 DEF IInv, PassKnown

(* What such a write leaves as it was.                                      *)
LEMMA WrittenIs ==
  ASSUME IInv, NEW p \in {"Ready", "Moving", "Blocked"}, NEW o \in {"src", "dst"},
         NEW l \in BOOLEAN
  PROVE  /\ Written(p, o, l) \in Volumes /\ Written(p, o, l).phase = p
         /\ Written(p, o, l).owner = o /\ Written(p, o, l).locked = l
         /\ Written(p, o, l).published = vol.published
  BY PassContext DEF Written, Volume, Volumes, Nodes

(* Leaving the Volume alone is permitted.                                   *)
LEMMA KeptVolume ==
  ASSUME IInv, vol' = vol
  PROVE  ServiceWrite
<1>1. VolumeInv /\ PhaseInv
  BY DEF IInv
<1> QED  BY <1>1, PassContext DEF ServiceWrite, VolumeInv, PhaseInv

(* A Volume whose Move has not recorded the disk plan is in the source's    *)
(* hands and in no recovery.                                                *)
LEMMA BeforePlan ==
  ASSUME IInv, ~mv.intent
  PROVE  /\ vol.owner = "src" /\ mv.recovery = "none" /\ mv.phase # "Succeeded"
         /\ ~mv.approved /\ ~mv.promote /\ ~mv.settle
  BY PassContext, Zenon DEF IInv, VolumeInv, PlanInv, PhaseInv, Committed

(* The source is claimed for the Move, put back into service, or released.  *)
LEMMA SetVolumeStep ==
  ASSUME IInv, ctl.step = "act", UNCHANGED <<cluster, disk, written, faults>>,
         \/ ctl.d.action = "ClaimSource" /\ SetVolume(ctl.vol.phase, TRUE)
         \/ ctl.d.action = "RestoreSource" /\ SetVolume("Ready", ctl.vol.locked)
         \/ ctl.d.action = "ReleaseSource" /\ SetVolume(ctl.vol.phase, FALSE)
  PROVE  IInv'
<1>1. /\ PassKnown' /\ UNCHANGED <<mv, journal, pods, placement, jobs, pool>>
  BY EndedPass, Zenon DEF SetVolume
<1>2. CASE vol' = vol
  BY <1>1, <1>2, KeptVolume, VolumeEffect
<1>3. CASE vol' # vol
  <2>1. PICK p, l :
          /\ vol' = Written(p, ctl.vol.owner, l) /\ StateMatches(ctl.vol, p, ctl.vol.owner)
          /\ \/ ctl.d.action = "ClaimSource" /\ p = ctl.vol.phase /\ l = TRUE
             \/ ctl.d.action = "RestoreSource" /\ p = "Ready" /\ l = ctl.vol.locked
             \/ ctl.d.action = "ReleaseSource" /\ p = ctl.vol.phase /\ l = FALSE
    BY <1>3, Zenon DEF SetVolume
  <2>2. ctl.vol.phase = vol.phase /\ ctl.vol.owner = vol.owner /\ ctl.vol.locked = vol.locked
    BY <2>1, SeenMatches
  <2>3. /\ vol' \in Volumes /\ vol'.phase = p /\ vol'.owner = vol.owner /\ vol'.locked = l
        /\ vol'.published = vol.published
    <3>1. /\ vol.phase \in {"Ready", "Moving", "Blocked"} /\ vol.locked \in BOOLEAN
          /\ vol.owner \in {"src", "dst"}
      BY PassContext
    <3>2. p \in {"Ready", "Moving", "Blocked"} /\ l \in BOOLEAN
      BY <2>1, <2>2, <3>1, Zenon
    <3>3. vol' = Written(p, vol.owner, l)
      BY <2>1, <2>2
    <3> QED  BY <3>1, <3>2, <3>3, WrittenIs
  <2>4. /\ ctl.d.action = "ClaimSource" => ~mv.intent /\ mv.protected
        /\ ctl.d.action = "ReleaseSource" => vol.phase = "Ready"
    BY Zenon DEF IInv, PassInv, Grounds
  <2>5. VolumeInv /\ PhaseInv
    BY DEF IInv
  <2>6. ServiceWrite
    BY <2>1, <2>2, <2>3, <2>4, <2>5, BeforePlan, PassContext, Zenon
       DEF ServiceWrite, VolumeInv, PhaseInv
  <2> QED  BY <1>1, <2>6, VolumeEffect
<1> QED  BY <1>2, <1>3

(* The one effect that makes the destination the owner finds the promotion  *)
(* receipt, the source out of service and nothing published.                *)
LEMMA CommitOwnerStep ==
  ASSUME IInv, ctl.step = "act", ctl.d.action = "CommitOwner", CommitOwner,
         UNCHANGED <<cluster, disk, written, faults>>
  PROVE  /\ IInv'
         /\ vol'.owner # vol.owner =>
              vol.owner = "src" /\ vol.published = {} /\ disk.dst = written
<1> DEFINE expected == Volume("Moving", "src", TRUE, {})
           wins == placement.state = "scheduled" /\ StateMatches(expected, "Ready", "dst")
           replayed == placement.state = "scheduled" /\ CommittedDestination(vol, FALSE)
<1>1. /\ UNCHANGED <<mv, journal, pods, placement, jobs, pool>>
      /\ vol' = IF ~ctl.committed /\ wins THEN Written("Ready", "dst", TRUE) ELSE vol
      /\ IF ctl.committed \/ wins \/ replayed THEN Done ELSE End
  BY ZenonT(40) DEF CommitOwner
<1>2. vol.owner = "dst" \/ disk.promoted
  BY DEF IInv, PassInv, Grounds
<1>3. wins => vol.phase = "Moving" /\ vol.owner = "src" /\ vol.locked
  BY Zenon DEF StateMatches, Volume
<1>4. replayed => vol.owner = "dst"
  BY DEF CommittedDestination
<1> HIDE DEF wins, replayed
<1>5. wins => /\ disk.promoted /\ mv.intent /\ vol.published = {} /\ disk.dst = written
  BY <1>2, <1>3, Zenon DEF IInv, JobInv, PlanInv, VolumeInv, DataInv, CopyIsComplete
<1>6. /\ Written("Ready", "dst", TRUE) \in Volumes
      /\ Written("Ready", "dst", TRUE).phase = "Ready"
      /\ Written("Ready", "dst", TRUE).owner = "dst"
      /\ Written("Ready", "dst", TRUE).locked
      /\ Written("Ready", "dst", TRUE).published = vol.published
  BY WrittenIs, Zenon
<1>7. ServiceWrite
  <2>1. CASE vol' = vol
    BY <2>1, KeptVolume
  <2>2. CASE wins /\ vol' = Written("Ready", "dst", TRUE)
    <3>1. mv.protected /\ mv.phase # "Succeeded" /\ mv.recovery # "Recovered"
      BY <1>3, <2>2, ZenonT(30) DEF IInv, VolumeInv, PhaseInv
    <3> QED  BY <1>3, <1>5, <1>6, <2>2, <3>1, ZenonT(40) DEF ServiceWrite
  <2> QED  BY <1>1, <2>1, <2>2, Zenon
<1>8. PassKnown'
  <2>1. CASE End
    BY <2>1, EndedPass
  <2>2. CASE Done /\ (ctl.committed \/ wins \/ replayed)
    <3>1. ctl.committed => vol.owner = "dst"
      BY DEF IInv, PassInv
    <3>2. vol'.owner = "dst" /\ (vol'.owner = vol.owner \/ vol'.phase = "Ready")
      BY <1>1, <1>4, <1>6, <2>2, <3>1, Zenon
    <3>3. Achieved
      BY <3>2 DEF Achieved
    <3>4. VolumeAdvances
      BY <1>1, <1>3, <1>6, <3>2, Zenon DEF VolumeAdvances, ServingOrRetired, Retired
    <3>5. Quiet => Quiet'
      BY <1>1 DEF Quiet
    <3> QED  BY <1>1, <2>2, <3>3, <3>4, <3>5, DonePass
  <2> QED  BY <1>1, <2>1, <2>2
<1>9. IInv'
  BY <1>1, <1>7, <1>8, VolumeEffect
<1> QED  BY <1>1, <1>3, <1>5, <1>9, Zenon

(* Success unlocks the destination and needs its cleanup closed.            *)
LEMMA MarkSucceededStep ==
  ASSUME IInv, ctl.step = "act", ctl.d.action = "MarkSucceeded", MarkSucceeded,
         UNCHANGED <<cluster, disk, written, faults>>
  PROVE  IInv' /\ vol'.owner = vol.owner
<1> DEFINE allowed == CleanupClosed("MoveSource", "src") /\ CommittedDestination(ctl.vol, TRUE)
           unlocks == ctl.vol.locked /\ StateMatches(ctl.vol, "Ready", "dst")
<1>1. /\ UNCHANGED <<mv, journal, pods, placement, jobs, pool>>
      /\ vol' = IF allowed /\ unlocks THEN Written("Ready", "dst", FALSE) ELSE vol
      /\ IF allowed /\ (unlocks \/ ~ctl.vol.locked) THEN Done ELSE End
  BY Zenon DEF MarkSucceeded
<1>2. allowed => ctl.vol.owner = "dst" /\ ctl.vol.phase = "Ready"
  BY DEF CommittedDestination
<1>3. /\ allowed => /\ vol.phase = "Ready" /\ vol.owner = "dst"
                    /\ vol.locked = ctl.vol.locked
  BY <1>2, SeenMatches, Zenon
<1> HIDE DEF allowed, unlocks
<1>4. /\ Written("Ready", "dst", FALSE) \in Volumes
      /\ Written("Ready", "dst", FALSE).phase = "Ready"
      /\ Written("Ready", "dst", FALSE).owner = "dst"
      /\ Written("Ready", "dst", FALSE).locked = FALSE
      /\ Written("Ready", "dst", FALSE).published = vol.published
  BY WrittenIs, Zenon
<1>5. ServiceWrite /\ vol'.owner = vol.owner
  <2>1. CASE vol' = vol
    BY <2>1, KeptVolume
  <2>2. CASE allowed /\ vol' = Written("Ready", "dst", FALSE)
    BY <1>3, <1>4, <2>2, Zenon DEF ServiceWrite
  <2> QED  BY <1>1, <2>1, <2>2, Zenon
<1>6. PassKnown'
  <2>1. CASE End
    BY <2>1, EndedPass
  <2>2. CASE Done /\ allowed /\ (unlocks \/ ~ctl.vol.locked)
    <3>1. ~vol'.locked /\ vol'.phase = "Ready" /\ vol'.owner = vol.owner
      BY <1>1, <1>3, <1>4, <2>2, Zenon
    <3>2. Achieved
      BY <3>1 DEF Achieved
    <3>3. VolumeAdvances
      BY <3>1 DEF VolumeAdvances, ServingOrRetired
    <3>4. Quiet => Quiet'
      BY <1>1 DEF Quiet
    <3> QED  BY <1>1, <2>2, <3>2, <3>3, <3>4, DonePass
  <2> QED  BY <1>1, <2>1, <2>2
<1>7. IInv'
  BY <1>1, <1>5, <1>6, VolumeEffect
<1> QED  BY <1>5, <1>7

(* A fence: the Volume is Blocked, on the owner it had, before the Move     *)
(* says so.                                                                 *)
LEMMA FenceStep ==
  ASSUME IInv, ctl.step = "act", UNCHANGED <<cluster, disk, written, faults>>,
         \/ ctl.d.action = "MarkBlocked" /\ MarkBlocked
         \/ ctl.d.action = "RequestSettlement" /\ RequestSettlement
  PROVE  IInv' /\ vol'.owner = vol.owner
<1>1. /\ UNCHANGED <<mv, journal, pods, placement, jobs, pool>>
      /\ \/ vol' = vol
         \/ /\ vol' = Written("Blocked", ctl.vol.owner, TRUE) /\ ctl.vol.locked
            /\ StateMatches(ctl.vol, "Blocked", ctl.vol.owner)
      /\ Done \/ End
  BY ZenonT(40) DEF MarkBlocked, RequestSettlement
<1>2. /\ mv.hold \/ mv.intent
      /\ (mv.recovery = "none" /\ ctl.d.recovery = "none") \/ Retired
  BY Zenon DEF IInv, PassInv, Grounds
<1>3. \/ vol' = vol
      \/ /\ vol' = Written("Blocked", vol.owner, TRUE) /\ vol.locked
  BY <1>1, SeenMatches, Zenon
<1>4. /\ vol' # vol => vol'.phase = "Blocked" /\ vol'.locked /\ vol.locked
      /\ vol'.owner = vol.owner /\ vol' \in Volumes /\ vol'.published = vol.published
      /\ vol'.locked = vol.locked
  <2>1. CASE vol' = vol
    BY <2>1, PassContext
  <2>2. CASE vol' = Written("Blocked", vol.owner, TRUE) /\ vol.locked
    BY <2>2, WrittenIs, PassContext, ZenonT(30)
  <2> QED  BY <1>3, <2>1, <2>2, Zenon
<1>5. ServiceWrite
  <2>1. CASE vol' = vol
    BY <2>1, KeptVolume
  <2>2. CASE vol' # vol
    <3>1. mv.protected /\ mv.phase # "Succeeded" /\ mv.recovery # "Recovered"
      BY <1>4, <2>2 DEF IInv, VolumeInv, PhaseInv
    <3> QED  BY <1>2, <1>4, <2>2, <3>1 DEF ServiceWrite
  <2> QED  BY <2>1, <2>2
<1>6. PassKnown'
  <2>1. CASE End
    BY <2>1, EndedPass
  <2>2. CASE Done
    <3>1. Achieved
      BY DEF Achieved
    <3>2. VolumeAdvances
      BY <1>2, <1>4 DEF VolumeAdvances, ServingOrRetired, Retired
    <3>3. Quiet => Quiet'
      BY <1>1 DEF Quiet
    <3> QED  BY <1>1, <2>2, <3>1, <3>2, <3>3, DonePass
  <2> QED  BY <1>1, <2>1, <2>2
<1>7. IInv'
  BY <1>1, <1>5, <1>6, VolumeEffect
<1> QED  BY <1>4, <1>7

=============================================================================
