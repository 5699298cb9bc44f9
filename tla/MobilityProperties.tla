------------------------- MODULE MobilityProperties -------------------------
(***************************************************************************)
(* What a planned cold move (module Mobility) guarantees.                  *)
(***************************************************************************)
EXTENDS Mobility

(* The copy at the recorded owner holds every write the workload ever made, *)
(* whichever helper, cleanup, commit or recovery step was interrupted: the  *)
(* owner CAS of commitOwner never elects an incomplete copy, and no purge   *)
(* reaches the owner's directory.                                           *)
OwnerHasEveryWrite == disk[vol.owner] = written

(* A mount, and a publication that BeginPublish has admitted, exists only   *)
(* on the owner and is covered by publishedNodes, so that the owner CAS and *)
(* the copy, which look at publishedNodes alone, never race a writer.       *)
MountsAreFenced ==
    \A c \in Consumers : pods[c].mount \in {"begun", "yes"} =>
        pods[c].node = vol.owner /\ pods[c].node \in vol.published

(* A Volume that a Move has taken out of service is locked, and a locked    *)
(* Volume has the protected Move that can bring it back: retireMoveHistory  *)
(* and DeleteMove never drop the record a Volume still depends on.          *)
LockHasRecord ==
    /\ vol.phase # "Ready" => vol.locked
    /\ vol.locked => mv.exists /\ mv.protected

(* Capacity of both Pools is held for every copy beside the owner's: while  *)
(* one exists the Move is approved and not settled, which is what the       *)
(* capacity ledger counts, through copy, commit, rollback and cleanup.      *)
EveryCopyIsAccounted ==
    LET extra == \/ disk.incoming # 0
                 \/ \E n \in Nodes \ {vol.owner} : disk[n] # 0
    IN extra => mv.exists /\ mv.approved /\ ~MoveCleanupSettled

(* From the moment the workload may be disrupted until the Volume serves    *)
(* again, its destination stays reserved: by the logical hold, by the       *)
(* execution approval that convertPreparation swaps it for, or because      *)
(* recovery has recorded that nothing is left to account for.               *)
ReservationSpansDisruption ==
    vol.phase # "Ready" => mv.hold \/ mv.approved \/ mv.reason = "RecoverySettled"

(* Once recovery is past Quiescing no copy or promotion helper exists any   *)
(* more, so none can write behind the inventory scan that recovery trusts.  *)
RecoveryIsQuiet ==
    mv.recovery \notin {"none", "Quiescing"} =>
        \A j \in {"copy", "promote"} : jobs[j] = NoJob

(* A cleanup journal, from the moment it is written to the purge by an      *)
(* executor that was authorised earlier, never names the owner's copy.      *)
CleanupSparesOwner == journal.target # vol.owner

(* The owner changes at most once, from source to destination, while no     *)
(* publication is recorded and no mount exists, and only to a copy that     *)
(* holds everything: postcommit recovery never rolls back.                  *)
OwnerMovesForward ==
    [][vol'.owner # vol.owner =>
        /\ vol.owner = "src" /\ vol.published = {}
        /\ disk.dst = written]_vars

(* A reply that is lost, a crash or a restart never makes the Move forget   *)
(* a decision others act on: the disk plan, a settlement request, the       *)
(* recovery fence and a terminal phase are kept until the record goes.      *)
DecisionsAreDurable ==
    [][mv.exists /\ mv'.exists =>
        /\ mv.plan => mv'.plan
        /\ mv.intent => mv'.intent
        /\ mv.settle => mv'.settle
        /\ mv.required > 0 => mv'.required >= mv.required
        /\ mv.phase \in {"Succeeded", "Cancelled"} => mv'.phase = mv.phase
        /\ mv.recovery = "Recovered" => mv'.recovery = "Recovered"]_vars

(* A held replacement is let go only after the reservation Pod that kept    *)
(* its place is gone: "Keep the workload held until the reservation is      *)
(* actually NotFound" (observePlacement).                                   *)
HeldUntilPlacementGone ==
    [][pods["new"].state = "held" /\ pods'["new"].state = "bound" =>
        placement.state = "none"]_vars

Mounted == [c \in Consumers |-> IF pods[c].mount = "yes" THEN pods[c].node ELSE "none"]

Service == INSTANCE SingleCopy WITH
    owner <- vol.owner, content <- disk[vol.owner], mounted <- Mounted

(* To its workload the moving Volume is one directory on one node.          *)
ImplementsSingleCopy == Service!Spec

-----------------------------------------------------------------------------
(* Liveness.  The controller requeues a Volume after every pass and relists *)
(* periodically, so a pass that can observe something new is taken and      *)
(* finished; Kubernetes runs the helper Pods, the executor and the scanner  *)
(* are loops of the node service, and kubelet, scheduler and the workload   *)
(* controller retry.  Nothing is assumed of the operator.  Bad luck is      *)
(* bounded by MaxFaults.                                                    *)

Fairness ==
    /\ WF_vars(Look) /\ WF_vars(Act) /\ WF_vars(Persist)
    /\ \A j \in JobKind : WF_vars(Helper(j))
    /\ WF_vars(Executor) /\ WF_vars(Scanner) /\ WF_vars(Workload) /\ WF_vars(Scheduler)
    /\ WF_vars(RetireClaim /\ UNCHANGED <<vol, journal, placement, jobs, disk, written,
                                         pool, faults>>)

LiveSpec == Spec /\ Fairness

(* A Move comes to an end: it succeeds, is cancelled, or stops in Blocked,  *)
(* where the Volume and its reservation wait for the operator.              *)
MoveConcludes ==
    <>(~mv.exists \/ mv.phase \in {"Succeeded", "Cancelled", "Blocked"})

(* A Volume whose claim is gone is handed back, whatever the Move had done  *)
(* by then: preparation is cancelled, an approved plan is settled.          *)
RetiredVolumeIsReleased == (Retired /\ vol.locked) ~> ~vol.locked

(* The Move of a released Volume closes its own record as well.             *)
ReleasedMoveSettles ==
    (mv.exists /\ mv.recovery = "Completing" /\ ~vol.locked) ~>
        (~mv.exists \/ mv.recovery = "Recovered")

(* ResumeOwner on a blocked, approved Move of a schedulable owner brings    *)
(* the Volume back into service and gives every hold back.                  *)
RecoveryCompletes ==
    (mv.phase = "Blocked" /\ mv.approved /\ mv.requested /\ ~cluster.cordoned) ~>
        (vol.phase = "Ready" /\ ~vol.locked)

(* A consumer that was evicted for the Move serves again, unless its claim  *)
(* has been deleted meanwhile.                                              *)
WorkloadReturns ==
    (mv.phase = "Committing" /\ vol.owner = "dst") ~>
        (Retired \/ (pods["new"].mount = "yes" /\ pods["new"].node = "dst"))
=============================================================================
