-------------------------- MODULE MobilityInvariant -------------------------
(***************************************************************************)
(* The inductive invariant of a planned cold move (module Mobility), for   *)
(* any number of faults, any number of writes and any choice of what       *)
(* operator and environment may do, and the predicates on states and steps *)
(* its proof is made of (modules MobilitySteps and MobilityProofs).        *)
(*                                                                         *)
(* A pass decides on what it observed and acts on what the cluster has     *)
(* become.  The proofs rest on what of an observation cannot be stale:     *)
(* phase, owner and lock of the Volume and every decision recorded in the  *)
(* Move are written by the controller alone, one pass at a time; receipts  *)
(* on the disk and the retirement of a claim are never undone.  PassInv    *)
(* says, action by action, what a pass still knows when it acts.           *)
(***************************************************************************)
EXTENDS MobilityProperties, MoveFSMReasons

(* A Pod that does not run holds no mount.                                  *)
PodInv ==
    /\ \A c \in Consumers : pods[c].state \in {"none", "held"} => pods[c].mount = "no"
    /\ MountsAreFenced

(* What the Volume's status says about the Move that has locked it.         *)
VolumeInv ==
    /\ vol.phase # "Ready" => vol.locked
    /\ vol.phase # "Ready" => mv.hold \/ mv.intent
    /\ vol.phase = "Moving" => vol.owner = "src"
    /\ vol.phase = "Moving" /\ mv.intent => vol.published = {}
    /\ vol.owner = "dst" => mv.intent
    /\ vol.locked => mv.protected
    /\ mv.protected => mv.exists

(* The order in which the Move records its decisions: nothing about disks,  *)
(* settlement or recovery before the disk plan.                             *)
PlanInv ==
    /\ ~mv.intent => /\ ~mv.approved /\ ~mv.promote /\ ~mv.settle
                     /\ mv.recovery = "none" /\ mv.required = 0
    /\ mv.hold => ~mv.intent
    /\ mv.intent => mv.approved \/ mv.reason = "RecoverySettled"
    /\ /\ mv.plan /\ mv.recovery # "Recovered"
       /\ mv.phase \notin {"Cancelled", "Succeeded"}
       => mv.protected
    /\ mv.phase = "StartingDisruption" => mv.hold

Quiet == jobs.copy = NoJob /\ jobs.promote = NoJob

ServingOrRetired == vol.phase = "Ready" \/ Retired

(* What a recorded phase stands for.                                        *)
PhaseInv ==
    /\ mv.phase \in Committed => vol.owner = "dst"
    /\ mv.phase = "Promoting" => disk.receipt
    /\ mv.phase = "Succeeded" => ~vol.locked
    /\ mv.recovery = "Recovered" => ~vol.locked
    /\ mv.recovery \notin {"none", "Quiescing"} => Quiet
    /\ mv.recovery = "Completing" /\ ~mv.settle => ServingOrRetired
    /\ mv.recovery = "Retiring" /\ ~mv.settle /\ vol.owner = "dst" => ServingOrRetired

(* A cleanup is journaled only when no owner commit can come any more, or   *)
(* after it.                                                                *)
JournalInv ==
    /\ journal.phase = "None" => journal.target = "none" /\ journal.reason = "none"
    /\ journal.phase # "None" => journal.target # "none"
    /\ jobs.purge = "authorized" => journal.phase = "Running"
    /\ vol.phase = "Moving" => journal.phase = "None"
    /\ ~mv.intent => journal.phase = "None"
    /\ CleanupSparesOwner

Holding == {"writing", "written"}   \* pcs under the volume lock of the node

(* Helpers work one at a time and only under the decision that starts them, *)
(* and their Jobs complete only behind their receipts.                      *)
JobInv ==
    /\ \A j \in JobKind :
          jobs[j].state \in {"none", "complete", "failed"} => jobs[j].pc = "idle"
    /\ ~(jobs.copy.pc \in Holding /\ jobs.promote.pc \in Holding)
    /\ disk.receipt => jobs.copy.pc \notin Holding
    /\ jobs.copy.state = "complete" => disk.receipt
    /\ jobs.promote.state = "complete" => disk.promoted
    /\ mv.promote => disk.receipt
    /\ jobs.promote.pc # "idle" \/ disk.promoted => mv.promote
    /\ ~mv.intent => /\ disk.incoming = 0 /\ disk.dst = 0 /\ ~disk.meta
                     /\ ~disk.receipt /\ jobs.copy.pc = "idle"

(* The copy of a complete incoming directory is in exactly one place.       *)
CopyIsComplete ==
    /\ ~mv.promote => disk.dst = 0
    /\ disk.promoted => disk.dst = written
    /\ disk.receipt /\ ~disk.promoted =>
          /\ disk.meta
          /\ \/ disk.incoming = written /\ disk.dst = 0
             \/ disk.incoming = 0 /\ disk.dst = written
    /\ jobs.promote.pc = "written" => disk.dst = written
    /\ jobs.copy.pc \in Holding => disk.meta
    /\ jobs.copy.pc = "written" => disk.incoming = written

(* The owner's directory holds every write, and while the source is out of  *)
(* service under the disk plan, so does what the helpers claim to be whole. *)
DataInv ==
    /\ written >= 1
    /\ OwnerHasEveryWrite
    /\ vol.phase = "Moving" /\ mv.intent => CopyIsComplete

At(s, a) == ctl.step = s /\ ctl.d.action = a

(* What a pass that is under way will be able to say when it persists its   *)
(* phase, unless the action that makes it true is still to come.            *)
Outlook(d) ==
    /\ d.phase \in Committed => vol.owner = "dst" \/ At("act", "CommitOwner")
    /\ d.phase = "Promoting" => disk.receipt
    /\ d.phase = "StartingDisruption" => mv.hold
    /\ d.phase = "Succeeded" => ~vol.locked \/ At("act", "MarkSucceeded")
    /\ d.recovery = "Recovered" => ~vol.locked \/ At("act", "CompleteRecovery")
    /\ d.recovery \notin {"none", "Quiescing"} => Quiet \/ At("act", "QuiesceRecovery")
    /\ d.recovery # "none" => mv.intent
    /\ d.recovery = "Completing" /\ ~mv.settle =>
          \/ d.action \in {"RetireRecovery", "ResumeRecovery"} /\ ctl.step # "persist"
          \/ ServingOrRetired
    /\ d.recovery = "Retiring" /\ ~mv.settle /\ vol.owner = "dst" =>
          \/ d.action = "ResumeRecovery" /\ ctl.step # "persist"
          \/ ServingOrRetired
    /\ mv.phase \in {"Succeeded", "Cancelled"} => d.phase = mv.phase
    /\ mv.recovery = "Recovered" => d.recovery = "Recovered"

(* What of its observation a pass about to take action a can rely on.       *)
Grounds(d, a) ==
    /\ a \in {"ReservePreparation", "StartDisruption", "ClaimSource",
              "InitializePreparation", "ReleasePreparation"} => ~mv.intent
    /\ a \in {"ClaimSource", "InitializePreparation"} => mv.protected
    /\ a = "StartDisruption" =>
          mv.phase = "StartingDisruption" /\ mv.hold /\ vol.locked
    /\ a = "EnsureCapacity" => mv.phase = "WaitingForCapacity"
    /\ a \in {"ReleaseSource", "ReleasePreparation"} => vol.phase = "Ready"
    /\ a = "ReleasePreparation" => d.phase = "Cancelled"
    /\ a \in {"EnsureCopy", "EnsurePromotion"} => mv.recovery = "none" /\ d.recovery = "none"
    /\ At("act2", "EnsureCopy") => mv.intent
    /\ a = "EnsurePromotion" => disk.receipt
    /\ a = "CommitOwner" => vol.owner = "dst" \/ disk.promoted
    /\ a = "EnsureCleanup" => vol.owner = "dst"
    /\ a = "MarkBlocked" =>
          mv.recovery = "none" /\ d.recovery = "none" /\ (mv.hold \/ mv.intent)
    /\ a = "RequestSettlement" => mv.intent /\ Retired
    /\ a = "FinalizeHistory" => ~vol.locked
    /\ a = "RetireRecovery" =>
          /\ mv.recovery = "Retiring" /\ mv.intent /\ ctl.vol # NoVolume
          /\ d.recovery = "Completing" /\ ~mv.settle => vol.owner = "dst"
    /\ At("act2", "RetireRecovery") => mv.required = 0
    /\ a = "ResumeRecovery" =>
          mv.recovery = "Resuming" /\ ctl.vol.phase \in {"Ready", "Blocked"}
    /\ At("act", "CompleteRecovery") =>
          ctl.vol # NoVolume /\ (~mv.settle => vol.phase = "Ready")

SecondEffects == {"StartDisruption", "EnsureCopy", "EnsurePromotion", "RetireRecovery"}

(* The Volume a pass has read is the Volume in all but publication.         *)
SeenIsCurrent ==
    ctl.vol # NoVolume => /\ ctl.vol.phase = vol.phase /\ ctl.vol.owner = vol.owner
                          /\ ctl.vol.locked = vol.locked

PassInv ==
    /\ ctl.step \in {"act", "act2"} => SeenIsCurrent
    /\ ctl.step # "idle" => Outlook(ctl.d) /\ Grounds(ctl.d, ctl.d.action)
    /\ ctl.step = "act" => ctl.d.action \in Effects
    /\ ctl.step = "act2" => ctl.d.action \in SecondEffects
    /\ ctl.step = "act" /\ ctl.committed => vol.owner = "dst"

IInv ==
    /\ TypeOK /\ PodInv /\ VolumeInv /\ PlanInv /\ PhaseInv /\ JournalInv
    /\ JobInv /\ DataInv /\ PassInv

-----------------------------------------------------------------------------
(* Observations.                                                            *)

FactNames == DOMAIN NoFacts

(* What the facts of an observation say of the state they were made in.     *)
Witnessed(f) ==
    /\ DOMAIN f = FactNames
    /\ f.WorkloadRetired => Retired
    /\ f.CopyComplete => jobs.copy.state = "complete"
    /\ f.PromotionComplete => jobs.promote.state = "complete"
    /\ f.OwnerCommitted => CommittedDestination(vol, FALSE)
    /\ f.RecoveryUnlockObserved => ~vol.locked
    /\ f.ReplacementHeld \in BOOLEAN /\ f.OwnerCommitted \in BOOLEAN

Truthful(s) == Witnessed(s.facts) /\ s.read \in BOOLEAN

(* What a pass that begins has decided, and why: q, s and a are its         *)
(* decision, v is the Volume it has read, f are the facts it has observed.  *)
Begins(q, s, a, v, f) ==
    /\ ctl' = [step |-> IF a \in PersistOnly THEN "persist" ELSE "act",
               d |-> Decision(q, s, a), vol |-> v, held |-> f.ReplacementHeld,
               live |-> mv.phase = "StartingDisruption" /\ pods["old"].state = "bound",
               committed |-> f.OwnerCommitted, fresh |-> TRUE]
    /\ Witnessed(f)
    /\ LET o == LifecycleFacts([ok |-> TRUE, read |-> v # NoVolume, facts |-> f])
       IN Sound(mv.phase, mv.recovery, o, q, s, a)
    /\ mv.phase \in {"Canceling", "Cancelled"} /\ mv.recovery # "Recovered" => v # NoVolume
    /\ /\ mv.phase = "Blocked" /\ mv.recovery # "Recovered" /\ mv.intent
       /\ RecoveryRequested /\ ~f.WorkloadRetired
       => v # NoVolume /\ vol.phase # "Moving" /\ (Retired => mv.settle)
    /\ mv.phase \notin {"Pending", "Preparing", "Canceling", "Cancelled", "Blocked",
                        "Succeeded", "StartingDisruption"}
       => mv.hold \/ mv.intent \/ mv.recovery = "Recovered"

-----------------------------------------------------------------------------
(* Steps of everybody but the controller.  They leave phase, owner and lock *)
(* of the Volume and every decision of the Move alone.                      *)

SameMove ==
    /\ mv'.phase = mv.phase /\ mv'.recovery = mv.recovery /\ mv'.plan = mv.plan
    /\ mv'.hold = mv.hold /\ mv'.approved = mv.approved /\ mv'.intent = mv.intent
    /\ mv'.promote = mv.promote /\ mv'.settle = mv.settle /\ mv'.required = mv.required
    /\ mv'.reason = mv.reason /\ mv'.protected = mv.protected
    /\ mv.protected => mv'.exists

SameVolume ==
    /\ vol'.phase = vol.phase /\ vol'.owner = vol.owner /\ vol'.locked = vol.locked

SamePass ==
    /\ ctl'.step = ctl.step /\ ctl'.d = ctl.d /\ ctl'.vol = ctl.vol
    /\ ctl'.committed = ctl.committed

(* What cannot be undone by anybody.                                        *)
Progress ==
    /\ disk.receipt => disk'.receipt
    /\ disk.promoted => disk'.promoted
    /\ Quiet => Quiet'
    /\ Retired => Retired'

Bystander ==
    /\ SameMove /\ SameVolume /\ SamePass /\ Progress
    /\ vol.phase = "Moving" /\ mv.intent => vol'.published = {}

(* What a step of the helpers must keep by itself.                          *)
HelperKeeps ==
    jobs' \in JobSets /\ disk' \in Disks /\ Progress /\ JobInv' /\ DataInv'

-----------------------------------------------------------------------------
(* Steps of the controller.                                                 *)

(* A well-formed pass that knows what it relies on.                         *)
PassKnown ==
    ctl \in Passes /\ (ctl.step # "idle" => ctl.d \in Decisions) /\ PassInv

(* What an effect must have achieved for its pass to be allowed to persist. *)
Achieved ==
    /\ ctl.d.action = "CommitOwner" => vol'.owner = "dst"
    /\ ctl.d.action \in {"MarkSucceeded", "CompleteRecovery"} => ~vol'.locked
    /\ ctl.d.action = "QuiesceRecovery" => Quiet'
    /\ ctl.d.action \in {"RetireRecovery", "ResumeRecovery"} =>
          /\ ctl.d.recovery = "Completing" /\ ~mv.settle => ServingOrRetired'
          /\ ctl.d.recovery = "Retiring" /\ ~mv.settle /\ vol.owner = "dst" =>
                ServingOrRetired'

(* How effects that lead on to the phase write may change the Volume.       *)
VolumeAdvances ==
    /\ vol'.owner = vol.owner \/ (vol'.owner = "dst" /\ vol'.phase = "Ready")
    /\ vol.owner = "dst" => vol'.owner = "dst"
    /\ ~vol.locked => ~vol'.locked
    /\ ServingOrRetired => ServingOrRetired' \/ ctl.d.recovery = "none"
    /\ ctl.d.action = "StartDisruption" => vol'.locked = vol.locked
    /\ ctl.d.action \in {"ReleaseSource", "ReleasePreparation"} => vol'.phase = vol.phase

(* The mounts that the workload has, with their nodes.                      *)
MountsKept ==
    \A o \in Consumers :
        /\ (pods'[o].mount = "yes") = (pods[o].mount = "yes")
        /\ pods'[o].mount = "yes" => pods'[o].node = pods[o].node

(* Effects on the Volume: the state the pass found, or a write by           *)
(* compareAndSetState that keeps the publications.                          *)
ServiceWrite ==
    /\ vol' \in Volumes /\ vol'.published = vol.published
    /\ vol'.phase # "Ready" => vol'.locked /\ (mv.hold \/ mv.intent)
    /\ vol'.phase = "Moving" =>
          vol'.owner = "src" /\ (vol.phase = "Moving" \/ ~mv.intent)
    /\ vol'.locked => mv.protected
    /\ \/ vol'.owner = vol.owner
       \/ /\ vol.owner = "src" /\ vol'.owner = "dst" /\ vol'.phase = "Ready"
          /\ vol.phase = "Moving" /\ vol.published = {} /\ disk.promoted
    /\ mv.phase = "Succeeded" \/ mv.recovery = "Recovered" => ~vol'.locked
    /\ vol.phase = "Ready" =>
          vol'.phase = "Ready" \/ Retired \/ mv.recovery = "none"

(* Writes of the Move.  Each keeps the disk plan and the promotion that is  *)
(* recorded, and records a promotion only behind the receipt of the copy.   *)
PlanKept ==
    /\ mv.intent => mv'.intent
    /\ mv.promote => mv'.promote
    /\ mv'.promote => disk.receipt

(* Fields of the Move that no effect of this group writes.                  *)
SameDecision ==
    /\ mv'.phase = mv.phase /\ mv'.recovery = mv.recovery /\ mv'.plan = mv.plan
    /\ mv'.settle = mv.settle

(* The owner of the Volume changes only as CommitOwner changes it.          *)
OwnerCommitted ==
    vol'.owner # vol.owner =>
        vol.owner = "src" /\ vol.published = {} /\ disk.dst = written

DecisionsKept ==
    /\ mv.plan => mv'.plan
    /\ mv.intent => mv'.intent
    /\ mv.settle => mv'.settle
    /\ mv.required > 0 => mv'.required >= mv.required
    /\ mv.phase \in {"Succeeded", "Cancelled"} => mv'.phase = mv.phase
    /\ mv.recovery = "Recovered" => mv'.recovery = "Recovered"

-----------------------------------------------------------------------------
(* The reservation Pod and the replacement that is held for it.             *)

PlacementGone == placement.state = "none"

(* Phases that are entered only when the reservation Pod is gone.           *)
Unreserved == {"WaitingForDestinationPublish", "CleaningSource", "Completing",
               "Succeeded", "Cancelled"}

(* A Move with a reservation Pod has its finalizer, and is not past the     *)
(* phase or the recovery phase that waits for the end of that Pod.          *)
PlacementInv ==
    /\ ~PlacementGone => mv.protected
    /\ mv.phase \in Unreserved => PlacementGone
    /\ mv.recovery \notin {"none", "Quiescing"} => PlacementGone
    /\ mv.hold \/ mv.intent => mv.plan

Reserving == {"ReservePreparation", "EnsurePlacement"}

(* What a pass that is under way knows of the reservation Pod.              *)
PassPlacement(d, a) ==
    /\ d.phase \in Unreserved => PlacementGone
    /\ d.recovery \notin {"none", "Quiescing"} =>
          PlacementGone \/ At("act", "QuiesceRecovery")
    /\ a = "ReleasePlacement" => d.phase \in Unreserved
    /\ a \in Reserving =>
          /\ mv.protected /\ mv.plan
          /\ mv.phase \notin Unreserved /\ d.phase \notin Unreserved
          /\ mv.recovery = "none" /\ d.recovery = "none"

HInv ==
    PlacementInv /\ (ctl.step # "idle" => PassPlacement(ctl.d, ctl.d.action))

(* What a decision for phase q and action a says about the reservation Pod. *)
PlacementSound(p, o, q, a) ==
    /\ q \in Unreserved =>
          \/ p \in Unreserved
          \/ p = "Canceling" /\ o.PlacementAbsent
          \/ /\ p = "ReleasingDestination"
             /\ ~o.PlacementExists /\ ~o.SourceAuthorityInvalid
             /\ ~(o.WorkloadRetired /\ ~BeforeExecutionApproval(o))
    /\ a = "ReleasePlacement" => q \in Unreserved
    /\ a \in Reserving =>
          p \notin Unreserved /\ q \notin Unreserved /\ p # "Blocked"
    /\ a = "ReservePreparation" => o.ProtectionPresent /\ o.SourcePlanRecorded
    /\ a = "EnsurePlacement" => p \in Executing

PlacementReasoned(p, o, d) == d = Refused \/ PlacementSound(p, o, d.phase, d.action)
=============================================================================
