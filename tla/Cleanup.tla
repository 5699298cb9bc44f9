------------------------------ MODULE Cleanup ------------------------------
(***************************************************************************)
(* Reclaiming one exact copy of a volume on one Pool.                      *)
(*                                                                         *)
(* The parent object (a ShiftPVVolume being deleted or a ShiftPVMove that  *)
(* retires a copy) embeds a cleanup journal.  Controller threads bind a    *)
(* resident Node Pod to the journal, the Pod retires and purges the copy   *)
(* under a node-local flock and reports a receipt, and a controller closes *)
(* the journal only when a Pool scan requested after the receipt shows the *)
(* copy absent.  Pods are replaced while their processes may still run,    *)
(* controllers work from stale snapshots, any process may stop anywhere.   *)
(*                                                                         *)
(* Abstracted: identities of the single parent, operation and target copy  *)
(* (all equal by construction, so the identity comparisons hold), times,   *)
(* digests and messages.  The rename into retired/ together with its inode *)
(* check is one step, and so is reading the placements together with the   *)
(* recheck of unrecorded paths that ends a scan.                           *)
(***************************************************************************)
EXTENDS Naturals

CONSTANTS
    Pods,         \* incarnations (UIDs) of the resident Node Pod of the node
    Controllers,  \* concurrent threads of the controller that advance the journal
    NoPod,        \* no executor, no receipt, lock free
    MaxFaults     \* bound: crashes, Pod deletions, revocations, foreign bumps...

ASSUME PodsAssumption == NoPod \notin Pods

VARIABLES
    journal,   \* status.cleanup of the parent
    pods,      \* API view of each Pod incarnation
    pc,        \* where the reclaim worker of each Pod is
    lock,      \* holder of the flock on lock-<volume>
    home,      \* the path of the target's role: the target, another inode, none
    retired,   \* is the target under .shiftpv/retired ?
    intent,    \* local cleanup intent marker
    receipt,   \* local receipt marker
    metadata,  \* copy and placement markers of the target
    authority, \* the parent and the Pool still authorize this cleanup
    generation,\* metadata.generation of the Pool
    status,    \* status of the Pool as last written by a scanner
    scan,      \* the inventory scan each Pod is running
    ctl,       \* step and snapshot of each controller thread
    faults     \* faults so far

vars == <<journal, pods, pc, lock, home, retired, intent, receipt, metadata,
          authority, generation, status, scan, ctl, faults>>
disk == <<home, retired, intent, receipt, metadata>>
node == <<pc, lock>>
pool == <<generation, status>>

Phases == {"None", "Pending", "Running", "Verifying", "ConfirmingAbsence",
           "Completed", "NeedsReview", "Gone"}
PodStates == {"absent", "starting", "ready", "terminating", "gone"}
Steps == {"idle", "approved", "locked", "checked", "cleared", "retired",
          "purged", "receipted", "report", "review"}
Journals == [phase : Phases, executor : Pods \cup {NoPod},
             receipt : Pods \cup {NoPod}, required : Nat, observed : Nat]

Empty == [phase |-> "None", executor |-> NoPod, receipt |-> NoPod,
          required |-> 0, observed |-> 0]

Works == [step : {"idle", "read", "bind", "fence", "settle"}, snap : Journals,
          executor : Pods \cup {NoPod}, generation : Nat]
Work(step, snap, executor, g) ==
    [step |-> step, snap |-> snap, executor |-> executor, generation |-> g]
NoWork == Work("idle", Empty, NoPod, 0)

Scans == [step : {"idle", "listed", "paths", "write"}, generation : Nat,
          paths : SUBSET {"home", "retired"}, valid : BOOLEAN, present : BOOLEAN]
Scan(step, g, paths, valid, present) ==
    [step |-> step, generation |-> g, paths |-> paths, valid |-> valid,
     present |-> present]
NoScan == Scan("idle", 0, {}, FALSE, FALSE)

Statuses == [generation : Nat, valid : BOOLEAN, present : BOOLEAN]

Init ==
    /\ journal = Empty
    /\ pods = [p \in Pods |-> "absent"]
    /\ pc = [p \in Pods |-> "idle"]
    /\ lock = NoPod
    /\ home = "target" /\ retired = FALSE
    /\ intent = FALSE /\ receipt = FALSE /\ metadata = TRUE
    /\ authority = TRUE
    /\ generation = 1
    /\ status = [generation |-> 0, valid |-> FALSE, present |-> FALSE]
    /\ scan = [p \in Pods |-> NoScan]
    /\ ctl = [c \in Controllers |-> NoWork]
    /\ faults = 0

Fault == faults < MaxFaults /\ faults' = faults + 1

-----------------------------------------------------------------------------
(* The journal: every write goes through UpdateStatus, which validates the  *)
(* complete next status against the journal as it is now, not against the   *)
(* snapshot the writer computed it from.                                    *)

Allowed(phase) ==
    CASE phase = "Pending" -> {"Pending", "Running", "NeedsReview"}
      [] phase = "Running" -> {"Running", "Verifying", "NeedsReview"}
      [] phase = "Verifying" -> {"Verifying", "ConfirmingAbsence", "NeedsReview"}
      [] phase = "ConfirmingAbsence" ->
            {"ConfirmingAbsence", "Completed", "NeedsReview"}
      [] phase \in {"Completed", "NeedsReview"} -> {phase}
      [] OTHER -> {}

PhaseEdge(cur, next) == next.phase \in Allowed(cur.phase)

ExecutorRule(cur, next) ==
    /\ \/ cur.executor \in {NoPod, next.executor}
       \/ /\ cur.phase = "Running" /\ next.phase = "Running"
          /\ cur.receipt = NoPod /\ next.receipt = NoPod
          /\ next.executor # NoPod
    /\ next.phase = "Running" => next.executor # NoPod

ReceiptRule(cur, next) ==
    /\ cur.receipt \in {NoPod, next.receipt}
    /\ next.receipt \in {NoPod, next.executor}

ValidPurgedReceipt(j) == j.executor # NoPod /\ j.receipt = j.executor

VerifyingRule(next) ==
    next.phase = "Verifying" => ValidPurgedReceipt(next) /\ next.required = 0

FenceRule(cur, next) ==
    /\ cur.required \in {0, next.required}
    /\ cur.observed \in {0, next.observed}

ConfirmationRule(next) ==
    next.phase \in {"ConfirmingAbsence", "Completed"} =>
        ValidPurgedReceipt(next) /\ next.required > 0

CompletedRule(next) ==
    next.phase = "Completed" => next.observed >= next.required

ValidTransition(cur, next) ==
    /\ PhaseEdge(cur, next)
    /\ ExecutorRule(cur, next)
    /\ ReceiptRule(cur, next)
    /\ VerifyingRule(next)
    /\ FenceRule(cur, next)
    /\ ConfirmationRule(next)
    /\ CompletedRule(next)

(* Mutant: the transition is not validated.                                 *)
UpdateStatusBlindly(next) == journal' = next

UpdateStatus(next) ==
    journal' = IF ValidTransition(journal, next) THEN next ELSE journal

-----------------------------------------------------------------------------
(* Controller threads: Settler.Advance, one observation of the journal and  *)
(* the one write it leads to.  A thread may stop between any two calls.     *)

(* Mutant: a bound executor never counts as retired.                        *)
RetiredNever(p) == FALSE

Retired(p) == pods[p] = "gone"
Ready(p) == pods[p] = "ready"

Working(c, step) == ctl[c].step = step
Done(c) == ctl' = [ctl EXCEPT ![c] = NoWork]
Snap(c) == ctl[c].snap

Ensure(c) ==
    /\ Working(c, "idle") /\ journal.phase = "None"
    /\ journal' = [Empty EXCEPT !.phase = "Pending"]
    /\ UNCHANGED <<pods, node, disk, authority, pool, scan, ctl, faults>>

ReadJournal(c) ==
    /\ Working(c, "idle")
    /\ journal.phase \in {"Pending", "Running", "Verifying", "ConfirmingAbsence"}
    /\ ctl' = [ctl EXCEPT ![c] = Work("read", journal, NoPod, 0)]
    /\ UNCHANGED <<journal, pods, node, disk, authority, pool, scan, faults>>

MayBind(c) ==
    /\ authority
    /\ Snap(c).executor # NoPod => Retired(Snap(c).executor)

FindExecutor(c) ==
    /\ Working(c, "read") /\ Snap(c).phase \in {"Pending", "Running"}
    /\ IF MayBind(c) /\ \E p \in Pods : Ready(p)
       THEN \E p \in Pods :
                /\ Ready(p)
                /\ ctl' = [ctl EXCEPT ![c] = Work("bind", Snap(c), p, 0)]
       ELSE Done(c)
    /\ UNCHANGED <<journal, pods, node, disk, authority, pool, scan, faults>>

BindCleanup(c) ==
    /\ Working(c, "bind")
    /\ UpdateStatus([Snap(c) EXCEPT !.phase = "Running",
                                    !.executor = ctl[c].executor])
    /\ Done(c)
    /\ UNCHANGED <<pods, node, disk, authority, pool, scan, faults>>

RequestPoolScan(c) ==
    /\ Working(c, "read") /\ Snap(c).phase = "Verifying"
    /\ ValidPurgedReceipt(Snap(c))
    /\ generation' = generation + 1
    /\ ctl' = [ctl EXCEPT ![c] = Work("fence", Snap(c), NoPod, generation')]
    /\ UNCHANGED <<journal, pods, node, disk, authority, status, scan, faults>>

RecordFence(c) ==
    /\ Working(c, "fence")
    /\ UpdateStatus([Snap(c) EXCEPT !.phase = "ConfirmingAbsence",
                                    !.required = ctl[c].generation])
    /\ Done(c)
    /\ UNCHANGED <<pods, node, disk, authority, pool, scan, faults>>

ScanProvesAbsence(j) ==
    /\ status.generation = generation
    /\ status.generation >= j.required
    /\ status.valid /\ ~status.present

ReadScan(c) ==
    /\ Working(c, "read") /\ Snap(c).phase = "ConfirmingAbsence"
    /\ IF ScanProvesAbsence(Snap(c))
       THEN ctl' = [ctl EXCEPT ![c] =
                        Work("settle", Snap(c), NoPod, status.generation)]
       ELSE Done(c)
    /\ UNCHANGED <<journal, pods, node, disk, authority, pool, scan, faults>>

SettleAbsence(c) ==
    /\ Working(c, "settle")
    /\ UpdateStatus([Snap(c) EXCEPT !.phase = "Completed",
                                    !.observed = ctl[c].generation])
    /\ Done(c)
    /\ UNCHANGED <<pods, node, disk, authority, pool, scan, faults>>

ControllerStops(c) ==
    /\ ~Working(c, "idle") /\ Fault
    /\ Done(c)
    /\ UNCHANGED <<journal, pods, node, disk, authority, pool, scan>>

(* The parent's finalizer is released only after its cleanup completed.     *)
DeleteParent ==
    /\ journal.phase = "Completed"
    /\ journal' = [journal EXCEPT !.phase = "Gone"]
    /\ UNCHANGED <<pods, node, disk, authority, pool, scan, ctl, faults>>

-----------------------------------------------------------------------------
(* The reclaim worker of a Node Pod.                                        *)

At(p, step) == pc[p] = step
Goto(p, step) == pc' = [pc EXCEPT ![p] = step]
Unlock(p) == lock' = IF lock = p THEN NoPod ELSE lock
Leave(p, step) == Goto(p, step) /\ Unlock(p)

Authority(p) ==
    /\ journal.phase = "Running" /\ journal.executor = p
    /\ authority
    /\ Ready(p)

Approve(p) ==
    /\ At(p, "idle") /\ pods[p] \in {"ready", "terminating"}
    /\ journal.phase = "Running" /\ journal.executor = p
    /\ Goto(p, "approved")
    /\ UNCHANGED <<journal, pods, lock, disk, authority, pool, scan, ctl, faults>>

(* Mutant: the flock is shared.                                             *)
AcquireShared(p) ==
    /\ At(p, "approved")
    /\ lock' = p /\ Goto(p, "locked")
    /\ UNCHANGED <<journal, pods, disk, authority, pool, scan, ctl, faults>>

Acquire(p) ==
    /\ At(p, "approved") /\ lock = NoPod
    /\ lock' = p /\ Goto(p, "locked")
    /\ UNCHANGED <<journal, pods, disk, authority, pool, scan, ctl, faults>>

(* verifyAbsent, then the markers that the receipt supersedes are removed.  *)
FinishMetadata(p) ==
    IF home = "none"
    THEN metadata' = FALSE /\ Leave(p, "report")
    ELSE metadata' = metadata /\ Leave(p, "review")

ReplayReceipt(p) ==
    /\ At(p, "locked") /\ receipt
    /\ IF Authority(p) THEN FinishMetadata(p)
                       ELSE metadata' = metadata /\ Leave(p, "idle")
    /\ UNCHANGED <<journal, pods, home, retired, intent, receipt, authority,
                   pool, scan, ctl, faults>>

EffectStarted == intent /\ (home # "target" \/ retired)

(* Mutant: the intent is not persisted before the effect.                   *)
PrepareIntentUnsaved(p) ==
    /\ At(p, "locked") /\ ~receipt /\ Authority(p)
    /\ metadata /\ home = "target"
    /\ Goto(p, "checked")
    /\ UNCHANGED <<journal, pods, lock, disk, authority, pool, scan, ctl, faults>>

PrepareIntent(p) ==
    /\ At(p, "locked") /\ ~receipt
    /\ \/ /\ intent /\ home = "other"
          /\ intent' = intent /\ Leave(p, "review")
       \/ /\ ~(intent /\ home = "other") /\ ~Authority(p)
          /\ intent' = intent /\ Leave(p, "idle")
       \/ /\ EffectStarted /\ home # "other" /\ Authority(p)
          /\ intent' = intent /\ Goto(p, "checked") /\ lock' = lock
       \/ /\ ~EffectStarted /\ Authority(p)
          /\ IF metadata /\ home = "target"
             THEN intent' = TRUE /\ Goto(p, "checked") /\ lock' = lock
             ELSE intent' = intent /\ Leave(p, "review")
    /\ UNCHANGED <<journal, pods, home, retired, receipt, metadata, authority,
                   pool, scan, ctl, faults>>

Recheck(p) ==
    /\ At(p, "checked")
    /\ IF Authority(p) THEN Goto(p, "cleared") /\ lock' = lock
                       ELSE Leave(p, "idle")
    /\ UNCHANGED <<journal, pods, disk, authority, pool, scan, ctl, faults>>

Retire(p) ==
    /\ At(p, "cleared")
    /\ IF home = "other" \/ (home = "target" /\ retired)
       THEN UNCHANGED <<home, retired>> /\ Leave(p, "review")
       ELSE /\ retired' = (retired \/ home = "target")
            /\ home' = "none"
            /\ Goto(p, "retired") /\ lock' = lock
    /\ UNCHANGED <<journal, pods, intent, receipt, metadata, authority, pool,
                   scan, ctl, faults>>

(* Mutant: a purge that failed is taken for done.                           *)
PurgeIgnored(p) ==
    /\ At(p, "retired")
    /\ Goto(p, "purged")
    /\ UNCHANGED <<journal, pods, lock, disk, authority, pool, scan, ctl, faults>>

Purge(p) ==
    /\ At(p, "retired")
    /\ retired' = FALSE
    /\ Goto(p, "purged")
    /\ UNCHANGED <<journal, pods, lock, home, intent, receipt, metadata,
                   authority, pool, scan, ctl, faults>>

PersistReceipt(p) ==
    /\ At(p, "purged")
    /\ receipt' = TRUE
    /\ Goto(p, "receipted")
    /\ UNCHANGED <<journal, pods, lock, home, retired, intent, metadata,
                   authority, pool, scan, ctl, faults>>

SettleReclaim(p) ==
    /\ At(p, "receipted")
    /\ FinishMetadata(p)
    /\ UNCHANGED <<journal, pods, home, retired, intent, receipt, authority,
                   pool, scan, ctl, faults>>

(* The worker writes the status it approved, extended with its result.      *)
Report(p) ==
    /\ At(p, "report")
    /\ UpdateStatus([Empty EXCEPT !.phase = "Verifying", !.executor = p,
                                  !.receipt = p])
    /\ Goto(p, "idle")
    /\ UNCHANGED <<pods, lock, disk, authority, pool, scan, ctl, faults>>

ReportReview(p) ==
    /\ At(p, "review")
    /\ UpdateStatus([Empty EXCEPT !.phase = "NeedsReview", !.executor = p])
    /\ Goto(p, "idle")
    /\ UNCHANGED <<pods, lock, disk, authority, pool, scan, ctl, faults>>

(* A failed call, an expired deadline: the flock is closed with the file.   *)
WorkerFails(p) ==
    /\ ~At(p, "idle") /\ Fault
    /\ Leave(p, "idle")
    /\ UNCHANGED <<journal, pods, disk, authority, pool, scan, ctl>>

(* CollectMetadata, once the parent no longer exists: intent, then receipt. *)
CollectRecord ==
    /\ journal.phase = "Gone" /\ receipt /\ lock = NoPod
    /\ home = "none" /\ ~retired /\ ~metadata
    /\ IF intent THEN intent' = FALSE /\ receipt' = receipt
                 ELSE receipt' = FALSE /\ intent' = intent
    /\ UNCHANGED <<journal, pods, node, home, retired, metadata, authority,
                   pool, scan, ctl, faults>>

-----------------------------------------------------------------------------
(* Resident Pods of the node's DaemonSet, and the environment.              *)

(* A new Pod has a UID of its own; which unused name stands for it is       *)
(* immaterial.                                                              *)
Unused == CHOOSE p \in Pods : pods[p] = "absent"

StartPod(p) ==
    /\ pods[p] = "absent" /\ p = Unused
    /\ \A q \in Pods : pods[q] \in {"absent", "gone"}
    /\ pods' = [pods EXCEPT ![p] = "starting"]
    /\ UNCHANGED <<journal, node, disk, authority, pool, scan, ctl, faults>>

Advertise(p) ==
    /\ pods[p] = "starting"
    /\ pods' = [pods EXCEPT ![p] = "ready"]
    /\ UNCHANGED <<journal, node, disk, authority, pool, scan, ctl, faults>>

(* The container restarts under the same Pod UID.                           *)
RestartContainer(p) ==
    /\ Ready(p) /\ Fault
    /\ pods' = [pods EXCEPT ![p] = "starting"]
    /\ Leave(p, "idle")
    /\ scan' = [scan EXCEPT ![p] = NoScan]
    /\ UNCHANGED <<journal, disk, authority, pool, ctl>>

DeletePod(p) ==
    /\ pods[p] \in {"starting", "ready"} /\ Fault
    /\ \E q \in Pods : pods[q] = "absent"
    /\ pods' = [pods EXCEPT ![p] = "terminating"]
    /\ UNCHANGED <<journal, node, disk, authority, pool, scan, ctl>>

(* The API object disappears; the process may be in the middle of a step.   *)
RemovePod(p) ==
    /\ pods[p] = "terminating"
    /\ pods' = [pods EXCEPT ![p] = "gone"]
    /\ UNCHANGED <<journal, node, disk, authority, pool, scan, ctl, faults>>

(* The Pool is not cleanup-ready, its backing is missing, the Move moved.   *)
RevokeAuthority ==
    /\ authority /\ Fault
    /\ authority' = FALSE
    /\ UNCHANGED <<journal, pods, node, disk, pool, scan, ctl>>

RestoreAuthority ==
    /\ ~authority
    /\ authority' = TRUE
    /\ UNCHANGED <<journal, pods, node, disk, pool, scan, ctl, faults>>

(* Another directory takes the path: an operator, or after the parent is    *)
(* gone a new volume of the same name.                                      *)
ReplacePath ==
    /\ home # "other" /\ Fault
    /\ home' = "other"
    /\ UNCHANGED <<journal, pods, node, retired, intent, receipt, metadata,
                   authority, pool, scan, ctl>>

(* Another cleanup, or an operator, updates the Pool spec.                  *)
UpdatePoolSpec ==
    /\ Fault
    /\ generation' = generation + 1
    /\ UNCHANGED <<journal, pods, node, disk, authority, status, scan, ctl>>

-----------------------------------------------------------------------------
(* Inventory scans: the Pool is read, then the physical paths, then the     *)
(* recorded placements, then the status is written.                         *)

Scanning(p, step) == scan[p].step = step

StartScan(p) ==
    /\ Scanning(p, "idle") /\ Ready(p)
    /\ scan' = [scan EXCEPT ![p] = Scan("listed", generation, {}, FALSE, FALSE)]
    /\ UNCHANGED <<journal, pods, node, disk, authority, pool, ctl, faults>>

Paths == (IF home # "none" THEN {"home"} ELSE {})
         \cup (IF retired THEN {"retired"} ELSE {})

ScanPhysical(p) ==
    /\ Scanning(p, "listed")
    /\ scan' = [scan EXCEPT ![p] = Scan("paths", scan[p].generation, Paths, FALSE, FALSE)]
    /\ UNCHANGED <<journal, pods, node, disk, authority, pool, ctl, faults>>

(* A recorded placement is readable when its path is the recorded inode or  *)
(* missing; every other path seen, vanished or not, withholds validity.     *)
Recorded == metadata /\ home = "target"
InventoryValid(paths) ==
    /\ ~(metadata /\ home = "other")
    /\ paths \subseteq (IF Recorded THEN {"home"} ELSE {})

ScanRecords(p) ==
    /\ Scanning(p, "paths")
    /\ scan' = [scan EXCEPT ![p] =
                 Scan("write", scan[p].generation, scan[p].paths,
                      InventoryValid(scan[p].paths), Recorded)]
    /\ UNCHANGED <<journal, pods, node, disk, authority, pool, ctl, faults>>

(* Mutant: a scan is stamped with the generation at the time of the write.  *)
SetPoolStatusRestamped(p) ==
    /\ Scanning(p, "write")
    /\ status' = [generation |-> generation, valid |-> scan[p].valid,
                  present |-> scan[p].present]
    /\ scan' = [scan EXCEPT ![p] = NoScan]
    /\ UNCHANGED <<journal, pods, node, disk, authority, generation, ctl, faults>>

SetPoolStatus(p) ==
    /\ Scanning(p, "write")
    /\ status' = IF scan[p].generation = generation
                 THEN [generation |-> generation, valid |-> scan[p].valid,
                       present |-> scan[p].present]
                 ELSE status
    /\ scan' = [scan EXCEPT ![p] = NoScan]
    /\ UNCHANGED <<journal, pods, node, disk, authority, generation, ctl, faults>>

-----------------------------------------------------------------------------
Controller(c) ==
    \/ Ensure(c) \/ ReadJournal(c) \/ FindExecutor(c) \/ BindCleanup(c)
    \/ RequestPoolScan(c) \/ RecordFence(c) \/ ReadScan(c) \/ SettleAbsence(c)

Worker(p) ==
    \/ Approve(p) \/ Acquire(p) \/ ReplayReceipt(p) \/ PrepareIntent(p)
    \/ Recheck(p) \/ Retire(p) \/ Purge(p) \/ PersistReceipt(p)
    \/ SettleReclaim(p) \/ Report(p) \/ ReportReview(p)

Scanner(p) ==
    StartScan(p) \/ ScanPhysical(p) \/ ScanRecords(p) \/ SetPoolStatus(p)

PodLife(p) == StartPod(p) \/ Advertise(p) \/ RemovePod(p)

Next ==
    \/ \E c \in Controllers : Controller(c) \/ ControllerStops(c)
    \/ \E p \in Pods :
          \/ Worker(p) \/ WorkerFails(p) \/ Scanner(p)
          \/ PodLife(p) \/ RestartContainer(p) \/ DeletePod(p)
    \/ DeleteParent \/ CollectRecord
    \/ RevokeAuthority \/ RestoreAuthority \/ ReplacePath \/ UpdatePoolSpec

Spec == Init /\ [][Next]_vars

(* Retry loops, work queues and timers keep every process running; the      *)
(* DaemonSet replaces a missing Pod and the kubelet finishes a deletion.    *)
Fairness ==
    /\ \A c \in Controllers : WF_vars(Controller(c))
    /\ \A p \in Pods : WF_vars(Worker(p)) /\ WF_vars(Scanner(p))
    /\ \A p \in Pods : WF_vars(PodLife(p))
    /\ WF_vars(RestoreAuthority)

FairSpec == Spec /\ Fairness

-----------------------------------------------------------------------------
(* Every variable holds what its declaration says.                          *)
TypeOK ==
    /\ journal \in Journals
    /\ pods \in [Pods -> PodStates]
    /\ pc \in [Pods -> Steps]
    /\ lock \in Pods \cup {NoPod}
    /\ home \in {"target", "other", "none"}
    /\ retired \in BOOLEAN /\ intent \in BOOLEAN /\ receipt \in BOOLEAN
    /\ metadata \in BOOLEAN /\ authority \in BOOLEAN
    /\ generation \in Nat
    /\ status \in Statuses
    /\ scan \in [Pods -> Scans]
    /\ ctl \in [Controllers -> Works]
    /\ faults \in Nat

TargetOnDisk == home = "target" \/ retired

(* A receipt in the journal (effects.go reclaim, store.go UpdateStatus) is  *)
(* evidence: the copy is gone from both paths, its markers are removed, and *)
(* the node keeps the local receipt for replay as long as the parent exists.*)
ReceiptIsEvidence ==
    journal.receipt # NoPod =>
        /\ ~TargetOnDisk
        /\ ~metadata
        /\ journal.phase # "Gone" => receipt

(* No process is still between its authority check and the end of the       *)
(* destructive effect once any executor's receipt is in the journal: the    *)
(* old Pod of a rebound journal cannot reach the paths afterwards.          *)
EffectSteps == {"checked", "cleared", "retired", "purged"}
SettledIsQuiet ==
    journal.receipt # NoPod => \A p \in Pods : pc[p] \notin EffectSteps

(* The scan fence is causal (absence.go openAbsenceFence): an inventory at  *)
(* or past the recorded generation was collected after the purge, whichever *)
(* Pod wrote it and however long that scan took.                            *)
FenceIsCausal ==
    /\ journal.required > 0 /\ status.generation >= journal.required
          => ~status.present
    /\ journal.required <= generation

(* The directory leaves its serving path only in a step whose local intent  *)
(* is already durable and while the journal still awaits a result; an inode *)
(* other than the recorded one is never moved (reclaim.go retire).          *)
RetireIsJournaled ==
    [][/\ home = "target" /\ home' = "none" =>
             intent /\ journal.phase = "Running"
       /\ home = "other" => home' = "other"]_vars

(* A requested cleanup ends: completed or under review, unless a foreign    *)
(* directory occupies the path, which needs an operator.                    *)
CleanupSettles ==
    journal.phase = "Pending" ~>
        \/ journal.phase \in {"Completed", "NeedsReview", "Gone"}
        \/ home = "other"

-----------------------------------------------------------------------------
(* The contract the parent relies on.  An operator who replaces a copy that *)
(* no executor has touched has displaced it, not destroyed it.              *)
Displaced ==
    home = "other" /\ ~intent /\ ~receipt /\ journal.phase # "Gone"

Outcome ==
    CASE journal.phase \in {"None", "Pending", "Running"} -> "open"
      [] journal.phase \in {"Verifying", "ConfirmingAbsence"} -> "reclaimed"
      [] journal.phase \in {"Completed", "Gone"} -> "settled"
      [] OTHER -> "review"

Copy == IF TargetOnDisk \/ Displaced THEN "intact" ELSE "gone"

Contract == INSTANCE ReclaimContract WITH outcome <- Outcome, copy <- Copy

(* Every step of controllers, Pods and scanners is a step of the contract   *)
(* or none: the copy is destroyed only while the journal is open, reported  *)
(* only when gone, settled only after a report.                             *)
ImplementsContract == Contract!Spec
=============================================================================
