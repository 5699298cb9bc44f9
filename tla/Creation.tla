------------------------------ MODULE Creation ------------------------------
(***************************************************************************)
(* The life of one CSI volume name on one Pool: CreateVolume, the node     *)
(* effects it binds, the retirement of an unfinished creation whose claim  *)
(* has ended, and DeleteVolume.                                            *)
(*                                                                         *)
(* CreateVolume and DeleteVolume of one name exclude each other by the     *)
(* per-volume lock of the controller, so one variable, csi, holds the call *)
(* in progress.  The creation controller (gc) takes no such lock.  Both    *)
(* meet at the ShiftPVVolume object through compare-and-set writes, and    *)
(* the Node Pods meet at the Pool's directory tree under a flock.  Pods    *)
(* are replaced while their processes still run, calls are cut short and   *)
(* replies are lost.                                                       *)
(*                                                                         *)
(* Volume incarnations (UIDs) and Pod incarnations are numbered from 1.    *)
(* Abstracted: capacity (module Admission), the Pool's own life (module    *)
(* Admission), publication and Moves (module Mobility), legacy helper      *)
(* Pods, the details of the cleanup journal and of the scan that proves    *)
(* absence (module Cleanup).  A read that only selects the following       *)
(* compare-and-set, whose conditions repeat it, is one step with it.       *)
(***************************************************************************)
EXTENDS Naturals

CONSTANTS
    MaxUid,     \* bound: incarnations of the ShiftPVVolume object
    MaxPod,     \* bound: incarnations of the resident Node Pod
    MaxDeletes, \* bound: DeleteVolume requests of the orchestrator
    MaxFaults   \* bound: calls cut short and processes that die

(* There is a resident Node Pod.                                            *)
ASSUME CreationAssumption ==
    MaxUid \in Nat /\ MaxPod \in Nat \ {0} /\ MaxDeletes \in Nat /\ MaxFaults \in Nat

VARIABLES
    volume,    \* the ShiftPVVolume object, with its embedded cleanup journal
    issued,    \* UIDs given out so far
    disk,      \* what each incarnation's copy has left on the Pool
    lock,      \* holder of the flock on lock-<volume>, 0 when free
    pod,       \* the Pod incarnation that the API shows as ready
    work,      \* the effect each Pod incarnation's process is running
    inventory, \* the last inventory written by the node's scanner
    call,      \* the CSI call and the creation controller's worker
    claim,     \* the PVC that asked for the volume
    pv,        \* has the provisioner stored a PV for the volume ?
    replied,   \* incarnations whose CreateVolume reply reached the provisioner
    asked,     \* DeleteVolume requests so far
    pending,   \* a DeleteVolume request waits for its success reply
    faults     \* faults so far

vars == <<volume, issued, disk, lock, pod, work, inventory, call, claim, pv,
          replied, asked, pending, faults>>
cluster == <<issued, inventory, claim, pv, replied, asked, pending, faults>>

Uids == 1..MaxUid
Pods == 1..MaxPod
Threads == {"csi", "gc"}
Phases == {"", "Pending", "NodeCreating", "Ready", "Deleting"}
Journal == {"None", "Pending", "Running", "Verifying", "Completed", "NeedsReview"}
Places == {"stage", "serving", "retired"}

NoVolume == [uid |-> 0]
Volumes == [uid : Uids, phase : Phases, deleting : BOOLEAN, executor : 0..MaxPod,
            receipt : 0..MaxPod, operation : {"", "cancel", "delete"},
            cleanup : Journal, cleaner : 0..MaxPod]
Intent(uid) == [uid |-> uid, phase |-> "", deleting |-> FALSE, executor |-> 0,
                receipt |-> 0, operation |-> "", cleanup |-> "None", cleaner |-> 0]

Untouched == [marker |-> FALSE, placed |-> FALSE, at |-> {}, intent |-> "none",
              receipt |-> FALSE]
Copies == [marker : BOOLEAN, placed : BOOLEAN, at : SUBSET Places,
           intent : {"none", "empty", "inode"}, receipt : BOOLEAN]

CallSteps ==
    {"idle", "read", "place", "initialize", "resume", "create", "recreate", "begin",
     "intent", "copy", "await", "complete", "finalize", "respond", "delete", "fence",
     "claim", "cancel", "unstarted", "unprotect", "begin cancel", "settle", "remove",
     "release"}
WorkSteps ==
    {"idle", "create", "serve", "digest", "record", "reclaim", "prepare", "retire", "purge",
     "settle", "report", "review"}
Calls == [step : CallSteps, uid : 0..MaxUid]
Works == [step : WorkSteps, uid : 0..MaxUid]

Idle == [step |-> "idle", uid |-> 0]
Step(step, uid) == [step |-> step, uid |-> uid]

Init ==
    /\ volume = NoVolume /\ issued = 0
    /\ disk = [u \in Uids |-> Untouched]
    /\ lock = 0 /\ pod = 1
    /\ work = [p \in Pods |-> Idle]
    /\ inventory = [copies |-> {}, after |-> {}]
    /\ call = [t \in Threads |-> Idle]
    /\ claim = "live" /\ pv = FALSE /\ replied = {}
    /\ asked = 0 /\ pending = FALSE /\ faults = 0

Fault == faults < MaxFaults /\ faults' = faults + 1
At(t, step) == call[t].step = step
Goto(t, step, uid) == call' = [call EXCEPT ![t] = Step(step, uid)]
Return(t) == call' = [call EXCEPT ![t] = Idle]
Uid(t) == call[t].uid
Same(t) == volume.uid = Uid(t) /\ volume # NoVolume

-----------------------------------------------------------------------------
(* What the state of the object says about a creation.                      *)

UnstartedCreation ==
    volume # NoVolume /\ volume.phase = "" /\ volume.cleanup = "None"
Initializing == UnstartedCreation /\ ~volume.deleting

(* Mutant: a Ready volume still counts as an unfinished creation.           *)
CancellableCreationReady ==
    /\ volume # NoVolume /\ volume.cleanup = "None" /\ volume.operation = ""
    /\ volume.phase \in {"Pending", "NodeCreating", "Ready"}

CancellableCreation ==
    /\ volume # NoVolume /\ volume.cleanup = "None" /\ volume.operation = ""
    /\ \/ volume.phase = "Pending" /\ volume.executor = 0 /\ volume.receipt = 0
       \/ volume.phase = "NodeCreating" /\ volume.executor # 0

(* Mutant: the durable cancellation fence is not recognised.                *)
CancellingCreationNever == FALSE

CancellingCreation ==
    volume # NoVolume /\ volume.phase = "Deleting" /\ volume.operation = "cancel"

ValidCreationReceipt ==
    volume.executor # 0 /\ volume.receipt = volume.executor

ValidReadyCreationHistory ==
    /\ volume.phase = "Ready" /\ ~volume.deleting
    /\ volume.operation = "" /\ volume.cleanup = "None"
    /\ ValidCreationReceipt

Unresolved == volume # NoVolume /\ volume.cleanup \notin {"None", "Completed"}

-----------------------------------------------------------------------------
(* CreateVolume.                                                            *)

(* The orchestrator asks while it has stored no PV.  The call waits for the *)
(* per-volume lock and is refused while a cleanup of the name is open.      *)
CreateVolume ==
    /\ At("csi", "idle") /\ ~pv /\ ~Unresolved
    /\ Goto("csi", "read", 0)
    /\ UNCHANGED <<volume, disk, lock, pod, work, cluster>>

(* readCreationIntent: a completed creation is answered from its history,   *)
(* an unfinished one is resumed, anything else is placed anew.              *)
ReadCreationIntent ==
    /\ At("csi", "read")
    /\ CASE volume = NoVolume -> Goto("csi", "place", 0)
         [] volume # NoVolume /\ ValidReadyCreationHistory ->
                Goto("csi", "respond", volume.uid)
         [] Initializing -> Goto("csi", "initialize", volume.uid)
         [] volume # NoVolume /\ volume.phase \in {"Pending", "NodeCreating"} ->
                Goto("csi", "resume", volume.uid)
         [] OTHER -> Return("csi")
    /\ UNCHANGED <<volume, disk, lock, pod, work, cluster>>

ClaimInspected == [place |-> "create", initialize |-> "recreate", resume |-> "begin"]

(* The original claim must still be live and unbound, for a new request and *)
(* for a recorded one.                                                      *)
InspectCreationClaim ==
    \E step \in DOMAIN ClaimInspected :
        /\ At("csi", step)
        /\ IF claim = "live" THEN Goto("csi", ClaimInspected[step], Uid("csi"))
                             ELSE Return("csi")
        /\ UNCHANGED <<volume, disk, lock, pod, work, cluster>>

(* resumeCreate: the recorded intent decides how the call goes on.          *)
ResumeCreate(current) ==
    CASE current.phase \in {"Pending", "NodeCreating"} ->
            Goto("csi", "copy", current.uid)
      [] current.phase = "Ready" -> Goto("csi", "respond", current.uid)
      [] OTHER -> Return("csi")

FreshPlacement == issued < MaxUid /\ inventory.copies = {}

(* resumeInitializingCreate goes on with the object it has read, only.      *)
ResumeInitializingCreate == At("csi", "recreate") => Same("csi")

BeginCreate ==
    /\ \/ At("csi", "create") \/ At("csi", "begin") \/ At("csi", "recreate")
    /\ CASE volume = NoVolume /\ ResumeInitializingCreate /\ FreshPlacement ->
                /\ volume' = Intent(issued + 1) /\ issued' = issued + 1
                /\ Goto("csi", "intent", issued + 1)
         [] Initializing /\ ResumeInitializingCreate ->
                Goto("csi", "intent", volume.uid) /\ UNCHANGED <<volume, issued>>
         [] volume # NoVolume /\ volume.phase # "" /\ ResumeInitializingCreate ->
                ResumeCreate(volume) /\ UNCHANGED <<volume, issued>>
         [] OTHER -> Return("csi") /\ UNCHANGED <<volume, issued>>
    /\ UNCHANGED <<disk, lock, pod, work, inventory, claim, pv, replied, asked,
                   pending, faults>>

(* The first status write.  A writer that recorded a phase earlier wins.    *)
RecordCreationIntent ==
    /\ At("csi", "intent")
    /\ IF Same("csi") /\ Initializing
       THEN volume' = [volume EXCEPT !.phase = "Pending"]
            /\ Goto("csi", "copy", volume.uid)
       ELSE /\ IF Same("csi") THEN ResumeCreate(volume) ELSE Return("csi")
            /\ UNCHANGED volume
    /\ UNCHANGED <<disk, lock, pod, work, cluster>>

(* Mutant: a bound Pod never counts as retired.                             *)
RetiredNever(p) == FALSE

Retired(p) == p # pod

BindCreation == volume' = [volume EXCEPT !.phase = "NodeCreating", !.executor = pod]

(* rebindCreation: the bound Pod is gone and has left no receipt.           *)
RebindCreation == volume.phase = "NodeCreating" /\ volume.receipt = 0 /\ Retired(volume.executor)

(* prepareCreation: bind the resident Pod, or the next one.                 *)
PrepareCreation ==
    /\ At("csi", "copy")
    /\ CASE Same("csi") /\ volume.phase = "Ready" ->
                /\ IF ValidReadyCreationHistory
                   THEN Goto("csi", "complete", volume.uid) ELSE Return("csi")
                /\ UNCHANGED volume
         [] Same("csi") /\ volume.phase = "NodeCreating" /\ ~RebindCreation ->
                Goto("csi", "await", volume.uid) /\ UNCHANGED volume
         [] Same("csi") /\ (volume.phase = "Pending" \/ RebindCreation) ->
                BindCreation /\ Goto("csi", "await", volume.uid)
         [] OTHER -> Return("csi") /\ UNCHANGED volume
    /\ UNCHANGED <<disk, lock, pod, work, cluster>>

(* createDirect and the poll behind it return on a receipt or on a timeout. *)
AwaitReceipt ==
    /\ At("csi", "await")
    /\ IF Same("csi") /\ ValidCreationReceipt
       THEN Goto("csi", "complete", volume.uid) ELSE Return("csi")
    /\ UNCHANGED <<volume, disk, lock, pod, work, cluster>>

Completable ==
    \/ volume.phase \in {"Ready", "Pending"}
    \/ volume.phase = "NodeCreating" /\ ValidCreationReceipt

CompleteCreate ==
    /\ At("csi", "complete")
    /\ IF Same("csi") /\ Completable
       THEN volume' = [volume EXCEPT !.phase = "Ready"]
            /\ Goto("csi", "finalize", volume.uid)
       ELSE UNCHANGED volume /\ Return("csi")
    /\ UNCHANGED <<disk, lock, pod, work, cluster>>

FinalizeCreate ==
    /\ At("csi", "finalize")
    /\ IF Same("csi") /\ ValidReadyCreationHistory
       THEN Goto("csi", "respond", volume.uid) ELSE Return("csi")
    /\ UNCHANGED <<volume, disk, lock, pod, work, cluster>>

(* The reply reaches the provisioner or is lost.                            *)
CreateVolumeResponse ==
    /\ At("csi", "respond") /\ Return("csi")
    /\ replied' \in {replied, replied \cup {Uid("csi")}}
    /\ UNCHANGED <<volume, issued, disk, lock, pod, work, inventory, claim, pv,
                   asked, pending, faults>>

-----------------------------------------------------------------------------
(* DeleteVolume, and the canceller it shares with the creation controller.  *)

DeleteVolume ==
    /\ At("csi", "idle") /\ (pending \/ asked < MaxDeletes)
    /\ asked' = IF pending THEN asked ELSE asked + 1
    /\ pending' = TRUE
    /\ Goto("csi", "delete", 0)
    /\ UNCHANGED <<volume, issued, disk, lock, pod, work, inventory, claim, pv,
                   replied, faults>>

(* A finished deletion is acknowledged and its PV object goes.              *)
Finish(t) ==
    /\ Return(t)
    /\ IF t = "csi" THEN pending' = FALSE /\ pv' = FALSE
                    ELSE UNCHANGED <<pending, pv>>

DeletableState ==
    /\ At("csi", "delete")
    /\ IF volume = NoVolume THEN Finish("csi")
       ELSE /\ Goto("csi", IF \/ UnstartedCreation \/ CancellableCreation
                              \/ CancellingCreation
                           THEN "cancel" ELSE "fence", volume.uid)
            /\ UNCHANGED <<pending, pv>>
    /\ UNCHANGED <<volume, issued, disk, lock, pod, work, inventory, claim,
                   replied, asked, faults>>

(* Decide: a Ready volume that nothing uses, or its own deletion.           *)
DeletionAdmitted ==
    \/ volume.phase = "Ready" /\ volume.operation = ""
    \/ volume.phase = "Deleting" /\ volume.operation = "delete"

BeginDelete ==
    /\ At("csi", "fence")
    /\ IF Same("csi") /\ DeletionAdmitted
       THEN /\ volume' = [volume EXCEPT !.phase = "Deleting", !.operation = "delete"]
            /\ Goto("csi", "settle", volume.uid)
       ELSE UNCHANGED volume /\ Return("csi")
    /\ UNCHANGED <<disk, lock, pod, work, cluster>>

(* Canceller.Advance: what is to be retired is read again.                  *)
Advance(t) ==
    /\ At(t, "cancel")
    /\ CASE volume = NoVolume -> Finish(t)
         [] Same(t) /\ UnstartedCreation ->
                Goto(t, "unstarted", Uid(t)) /\ UNCHANGED <<pending, pv>>
         [] Same(t) /\ (CancellableCreation \/ CancellingCreation) ->
                Goto(t, "begin cancel", Uid(t)) /\ UNCHANGED <<pending, pv>>
         [] OTHER -> Return(t) /\ UNCHANGED <<pending, pv>>
    /\ UNCHANGED <<volume, issued, disk, lock, pod, work, inventory, claim,
                   replied, asked, faults>>

(* The DELETE carries the UID and the resource version that were read.      *)
CancelUnstartedCreation(t) ==
    /\ At(t, "unstarted")
    /\ IF Same(t) /\ UnstartedCreation
       THEN volume' = [volume EXCEPT !.deleting = TRUE]
            /\ Goto(t, "unprotect", Uid(t))
       ELSE UNCHANGED volume /\ Return(t)
    /\ UNCHANGED <<disk, lock, pod, work, cluster>>

FinalizeUnstartedCreation(t) ==
    /\ At(t, "unprotect")
    /\ IF volume = NoVolume \/ (Same(t) /\ volume.deleting /\ UnstartedCreation)
       THEN volume' = NoVolume /\ Finish(t)
       ELSE Return(t) /\ UNCHANGED <<volume, pending, pv>>
    /\ UNCHANGED <<issued, disk, lock, pod, work, inventory, claim, replied,
                   asked, faults>>

BeginCreationCancellation(t) ==
    /\ At(t, "begin cancel")
    /\ IF Same(t) /\ (CancellableCreation \/ CancellingCreation)
       THEN /\ volume' = [volume EXCEPT !.phase = "Deleting", !.operation = "cancel"]
            /\ Goto(t, "settle", Uid(t))
       ELSE UNCHANGED volume /\ Return(t)
    /\ UNCHANGED <<disk, lock, pod, work, cluster>>

(* Settler.Advance, one journal write at a time: record the cleanup, bind   *)
(* or rebind a Pod, and close the journal on a scan that followed it.       *)
Absent(u) == u \in inventory.after /\ u \notin inventory.copies

Settle(t) ==
    /\ At(t, "settle")
    /\ CASE ~Same(t) -> Return(t) /\ UNCHANGED volume
         [] Same(t) /\ volume.cleanup = "None" ->
                /\ volume' = [volume EXCEPT !.cleanup = "Pending"]
                /\ UNCHANGED call
         [] Same(t) /\ \/ volume.cleanup = "Pending"
                       \/ volume.cleanup = "Running" /\ Retired(volume.cleaner) ->
                /\ volume' = [volume EXCEPT !.cleanup = "Running", !.cleaner = pod]
                /\ Return(t)
         [] Same(t) /\ volume.cleanup = "Verifying" /\ Absent(Uid(t)) ->
                /\ volume' = [volume EXCEPT !.cleanup = "Completed"]
                /\ UNCHANGED call
         [] Same(t) /\ volume.cleanup = "Completed" ->
                Goto(t, "remove", Uid(t)) /\ UNCHANGED volume
         [] OTHER -> Return(t) /\ UNCHANGED volume
    /\ UNCHANGED <<disk, lock, pod, work, cluster>>

RemoveVolume(t) ==
    /\ At(t, "remove")
    /\ CASE volume = NoVolume -> Goto(t, "release", Uid(t)) /\ UNCHANGED volume
         [] Same(t) -> volume' = [volume EXCEPT !.deleting = TRUE]
                       /\ Goto(t, "release", Uid(t))
         [] OTHER -> Return(t) /\ UNCHANGED volume
    /\ UNCHANGED <<disk, lock, pod, work, cluster>>

RemoveVolumeFinalizer(t) ==
    /\ At(t, "release")
    /\ IF volume = NoVolume \/ Same(t)
       THEN volume' = NoVolume /\ Finish(t)
       ELSE Return(t) /\ UNCHANGED <<volume, pending, pv>>
    /\ UNCHANGED <<issued, disk, lock, pod, work, inventory, claim, replied,
                   asked, faults>>

(* Mutant: a fenced cancellation is not taken up again.                     *)
CandidateUnfenced == UnstartedCreation \/ CancellableCreation

Candidate == UnstartedCreation \/ CancellableCreation \/ CancellingCreation

(* The creation controller re-reads the Volume its scan discovered.         *)
Reconcile ==
    /\ At("gc", "idle") /\ Candidate
    /\ Goto("gc", IF CancellingCreation THEN "cancel" ELSE "claim", volume.uid)
    /\ UNCHANGED <<volume, disk, lock, pod, work, cluster>>

(* RetirementInspector: the claim has ended and no PV names the volume.     *)
ClaimRetired ==
    /\ At("gc", "claim")
    /\ IF claim = "gone" /\ ~pv THEN Goto("gc", "cancel", Uid("gc"))
                                ELSE Return("gc")
    /\ UNCHANGED <<volume, disk, lock, pod, work, cluster>>

-----------------------------------------------------------------------------
(* The resident executor of Pod p.  Every effect on disk is followed, in    *)
(* one step, by the read of authority that precedes the next effect.        *)

Doing(p, step) == work[p].step = step
Copy(p) == disk[work[p].uid]
Proceed(p, step) == work' = [work EXCEPT ![p].step = step]
Stop(p) == work' = [work EXCEPT ![p] = Idle]
Unlock(p) == lock' = IF lock = p THEN 0 ELSE lock
Write(p, copy) == disk' = [disk EXCEPT ![work[p].uid] = copy]

CreationAuthority(p, u) ==
    /\ volume.uid = u /\ volume # NoVolume
    /\ volume.phase = "NodeCreating" /\ volume.executor = p
    /\ p = pod

ExecuteCreate(p) ==
    /\ Doing(p, "idle") /\ volume # NoVolume /\ volume.phase = "NodeCreating"
    /\ volume.receipt = 0 /\ CreationAuthority(p, volume.uid)
    /\ work' = [work EXCEPT ![p] = Step("create", volume.uid)]
    /\ UNCHANGED <<volume, disk, lock, pod, call, cluster>>

(* Mutant: authority is not read again once the flock is held.              *)
LockServingUnchecked(p) ==
    /\ Doing(p, "create") /\ lock = 0
    /\ lock' = p /\ Proceed(p, "serve")
    /\ UNCHANGED <<volume, disk, pod, call, cluster>>

LockServing(p) ==
    /\ Doing(p, "create") /\ lock = 0
    /\ IF CreationAuthority(p, work[p].uid)
       THEN lock' = p /\ Proceed(p, "serve") ELSE Stop(p) /\ UNCHANGED lock
    /\ UNCHANGED <<volume, disk, pod, call, cluster>>

ServingPathTaken == \E u \in Uids : "serving" \in disk[u].at

(* Mutant: the placement is recorded before the directory is staged.        *)
ServingStepUnstaged(copy) ==
    CASE ~copy.marker -> [copy EXCEPT !.marker = TRUE]
      [] copy.marker /\ ~copy.placed -> [copy EXCEPT !.placed = TRUE]
      [] OTHER -> [copy EXCEPT !.at = {"serving"}]

(* ensureServing: the next durable write, in the order that a later call    *)
(* can resume: copy marker, staged directory, placement, rename.            *)
ServingStep(copy) ==
    CASE ~copy.marker -> [copy EXCEPT !.marker = TRUE]
      [] copy.marker /\ ~copy.placed /\ "stage" \notin copy.at ->
            [copy EXCEPT !.at = @ \cup {"stage"}]
      [] copy.marker /\ ~copy.placed /\ "stage" \in copy.at ->
            [copy EXCEPT !.placed = TRUE]
      [] OTHER -> [copy EXCEPT !.at = (@ \ {"stage"}) \cup {"serving"}]

Stageable(copy) ==
    \/ copy.placed /\ copy.marker /\ "stage" \in copy.at
    \/ ~copy.placed /\ (copy.marker \/ "stage" \notin copy.at)

EnsureServing(p) ==
    /\ Doing(p, "serve")
    /\ CASE Copy(p).placed /\ "serving" \in Copy(p).at ->
                /\ Unlock(p) /\ UNCHANGED disk
                /\ IF CreationAuthority(p, work[p].uid)
                   THEN Proceed(p, "digest") ELSE Stop(p)
         [] "serving" \notin Copy(p).at /\ Stageable(Copy(p)) /\ ~ServingPathTaken ->
                Write(p, ServingStep(Copy(p))) /\ UNCHANGED <<work, lock>>
         [] OTHER -> Stop(p) /\ Unlock(p) /\ UNCHANGED disk
    /\ UNCHANGED <<volume, pod, call, cluster>>

ServingReceipt(p) ==
    /\ Doing(p, "digest") /\ lock = 0
    /\ IF /\ CreationAuthority(p, work[p].uid)
          /\ Copy(p).marker /\ Copy(p).placed /\ "serving" \in Copy(p).at
       THEN Proceed(p, "record") ELSE Stop(p)
    /\ UNCHANGED <<volume, disk, lock, pod, call, cluster>>

(* Mutant: a receipt is accepted from a Pod that is no longer bound.        *)
RecordReceiptUnbound(p) ==
    /\ Doing(p, "record") /\ Stop(p)
    /\ volume' = IF volume # NoVolume /\ volume.phase = "NodeCreating"
                 THEN [volume EXCEPT !.receipt = volume.executor] ELSE volume
    /\ UNCHANGED <<disk, lock, pod, call, cluster>>

RecordCreationReceipt(p) ==
    /\ Doing(p, "record") /\ Stop(p)
    /\ volume' = IF /\ volume.uid = work[p].uid /\ volume # NoVolume
                    /\ volume.phase = "NodeCreating" /\ volume.executor = p
                 THEN [volume EXCEPT !.receipt = p] ELSE volume
    /\ UNCHANGED <<disk, lock, pod, call, cluster>>

CleanupAuthority(p, u) ==
    /\ volume.uid = u /\ volume # NoVolume
    /\ volume.phase = "Deleting"
    /\ volume.cleanup = "Running" /\ volume.cleaner = p
    /\ p = pod

ExecuteReclaim(p) ==
    /\ Doing(p, "idle") /\ volume # NoVolume /\ CleanupAuthority(p, volume.uid)
    /\ work' = [work EXCEPT ![p] = Step("reclaim", volume.uid)]
    /\ UNCHANGED <<volume, disk, lock, pod, call, cluster>>

(* Mutant: the reclaim does not wait for the flock.                         *)
LockReclaimShared(p) ==
    /\ Doing(p, "reclaim")
    /\ IF CleanupAuthority(p, work[p].uid)
       THEN lock' = p /\ Proceed(p, "prepare") ELSE Stop(p) /\ UNCHANGED lock
    /\ UNCHANGED <<volume, disk, pod, call, cluster>>

(* A receipt on disk is replayed when the copy is still absent.             *)
ReplayCreationCancellation(copy) == IF copy.at = {} THEN "report" ELSE "review"

LockReclaim(p) ==
    /\ Doing(p, "reclaim") /\ lock = 0
    /\ CASE ~CleanupAuthority(p, work[p].uid) -> Stop(p) /\ UNCHANGED lock
         [] CleanupAuthority(p, work[p].uid) /\ Copy(p).receipt ->
                Proceed(p, ReplayCreationCancellation(Copy(p))) /\ UNCHANGED lock
         [] OTHER -> lock' = p /\ Proceed(p, "prepare")
    /\ UNCHANGED <<volume, disk, pod, call, cluster>>

(* validateCreationSource and validateCreationResume.                       *)
ValidCreationSource(copy) ==
    /\ \A a, b \in copy.at : a = b   \* never in two places
    /\ CASE copy.intent = "none" ->
                /\ "retired" \notin copy.at
                /\ "serving" \in copy.at => copy.placed
                /\ copy.at = {} => ~copy.placed
                /\ copy.at # {} => copy.marker
         [] copy.intent = "empty" -> copy.at = {} /\ ~copy.placed
         [] copy.intent = "inode" -> copy.marker

ValidServingSource(copy) ==
    copy.intent = "none" => copy.marker /\ copy.placed /\ copy.at = {"serving"}

PrepareCleanup(p) ==
    /\ Doing(p, "prepare")
    /\ LET valid == IF CancellingCreation THEN ValidCreationSource(Copy(p))
                                          ELSE ValidServingSource(Copy(p))
           intent == IF Copy(p).intent # "none" THEN Copy(p).intent
                     ELSE IF Copy(p).at = {} THEN "empty" ELSE "inode"
       IN IF ~valid
          THEN Proceed(p, "review") /\ Unlock(p) /\ UNCHANGED disk
          ELSE /\ Write(p, [Copy(p) EXCEPT !.intent = intent])
               /\ IF CleanupAuthority(p, work[p].uid)
                  THEN /\ Proceed(p, IF intent = "inode" THEN "retire" ELSE "settle")
                       /\ UNCHANGED lock
                  ELSE Stop(p) /\ Unlock(p)
    /\ UNCHANGED <<volume, pod, call, cluster>>

RetireCopy(p) ==
    /\ Doing(p, "retire")
    /\ Write(p, [Copy(p) EXCEPT !.at = IF @ = {} THEN {} ELSE {"retired"}])
    /\ IF CleanupAuthority(p, work[p].uid)
       THEN Proceed(p, "purge") /\ UNCHANGED lock ELSE Stop(p) /\ Unlock(p)
    /\ UNCHANGED <<volume, pod, call, cluster>>

PurgeCopy(p) ==
    /\ Doing(p, "purge")
    /\ Write(p, [Copy(p) EXCEPT !.at = @ \ {"retired"}])
    /\ IF CleanupAuthority(p, work[p].uid)
       THEN Proceed(p, "settle") /\ UNCHANGED lock ELSE Stop(p) /\ Unlock(p)
    /\ UNCHANGED <<volume, pod, call, cluster>>

(* Nothing may be left anywhere; the receipt supersedes the copy's markers. *)
SettleReclaim(p) ==
    /\ Doing(p, "settle") /\ Unlock(p)
    /\ IF Copy(p).at = {}
       THEN /\ Write(p, [Copy(p) EXCEPT !.receipt = TRUE, !.marker = FALSE,
                                        !.placed = FALSE])
            /\ Proceed(p, "report")
       ELSE Proceed(p, "review") /\ UNCHANGED disk
    /\ UNCHANGED <<volume, pod, call, cluster>>

ReportCleanup(p) ==
    /\ \/ Doing(p, "report") \/ Doing(p, "review")
    /\ Stop(p)
    /\ volume' = IF /\ volume.uid = work[p].uid /\ volume # NoVolume
                    /\ volume.cleanup = "Running" /\ volume.cleaner = p
                 THEN [volume EXCEPT !.cleanup = IF Doing(p, "report")
                                          THEN "Verifying" ELSE "NeedsReview"]
                 ELSE volume
    /\ UNCHANGED <<disk, lock, pod, call, cluster>>

-----------------------------------------------------------------------------
(* The node's scanner, the orchestrator, and what may fail.                 *)

(* A scan sees every directory a copy has; it proves the absence of a copy  *)
(* when it starts after that copy's cleanup receipt was recorded.           *)
ScanPool ==
    /\ inventory' = [copies |-> {u \in Uids : disk[u].at # {}},
                     after |-> {u \in Uids : volume.uid = u
                                             /\ volume.cleanup = "Verifying"}]
    /\ UNCHANGED <<volume, issued, disk, lock, pod, work, call, claim, pv,
                   replied, asked, pending, faults>>

(* The provisioner stores the PV it was told of; a live claim binds to it.  *)
SavePV ==
    /\ replied # {} /\ ~pv /\ asked = 0
    /\ pv' = TRUE /\ claim' = IF claim = "live" THEN "bound" ELSE claim
    /\ UNCHANGED <<volume, issued, disk, lock, pod, work, inventory, call,
                   replied, asked, pending, faults>>

DeleteClaim ==
    /\ claim # "gone" /\ claim' = "gone"
    /\ UNCHANGED <<volume, issued, disk, lock, pod, work, inventory, call, pv,
                   replied, asked, pending, faults>>

(* The Pod object is replaced; its process may run on.                      *)
ReplacePod ==
    /\ pod < MaxPod /\ pod' = pod + 1
    /\ UNCHANGED <<volume, disk, lock, work, call, cluster>>

ProcessDies(p) ==
    /\ ~Doing(p, "idle") /\ Fault
    /\ Stop(p) /\ Unlock(p)
    /\ UNCHANGED <<volume, issued, disk, pod, inventory, call, claim, pv,
                   replied, asked, pending>>

(* A deadline or a restart of the controller ends a call between two steps. *)
CallEnds(t) ==
    /\ ~At(t, "idle") /\ Fault
    /\ Return(t)
    /\ UNCHANGED <<volume, issued, disk, lock, pod, work, inventory, claim, pv,
                   replied, asked, pending>>

Creating ==
    \/ ReadCreationIntent \/ InspectCreationClaim \/ BeginCreate
    \/ RecordCreationIntent \/ PrepareCreation \/ AwaitReceipt \/ CompleteCreate
    \/ FinalizeCreate \/ CreateVolumeResponse

Retiring(t) ==
    \/ Advance(t) \/ CancelUnstartedCreation(t) \/ FinalizeUnstartedCreation(t)
    \/ BeginCreationCancellation(t) \/ Settle(t) \/ RemoveVolume(t)
    \/ RemoveVolumeFinalizer(t)

Executing(p) ==
    \/ ExecuteCreate(p) \/ LockServing(p) \/ EnsureServing(p) \/ ServingReceipt(p)
    \/ RecordCreationReceipt(p) \/ ExecuteReclaim(p) \/ LockReclaim(p)
    \/ PrepareCleanup(p) \/ RetireCopy(p) \/ PurgeCopy(p) \/ SettleReclaim(p)
    \/ ReportCleanup(p)

Next ==
    \/ CreateVolume \/ Creating
    \/ DeleteVolume \/ DeletableState \/ BeginDelete
    \/ \E t \in Threads : Retiring(t) \/ CallEnds(t)
    \/ Reconcile \/ ClaimRetired
    \/ \E p \in Pods : Executing(p) \/ ProcessDies(p)
    \/ ScanPool \/ SavePV \/ DeleteClaim \/ ReplacePod

(* Calls and effects that have begun go on, the provisioner repeats a call  *)
(* that has not succeeded, the creation controller and the scanner run on   *)
(* their tickers, and the executor on its watch.  A call that waits for the *)
(* per-volume lock gets it in the end: the lock is a sync.Mutex, which      *)
(* hands over to the longest waiter.                                        *)
Fairness ==
    /\ SF_vars(CreateVolume) /\ WF_vars(Creating)
    /\ SF_vars(pending /\ DeleteVolume)
    /\ WF_vars(DeletableState) /\ WF_vars(BeginDelete)
    /\ \A t \in Threads : WF_vars(Retiring(t))
    /\ WF_vars(Reconcile) /\ WF_vars(ClaimRetired)
    /\ \A p \in Pods : WF_vars(Executing(p))
    /\ WF_vars(ScanPool)

Spec == Init /\ [][Next]_vars /\ Fairness

-----------------------------------------------------------------------------
(* Every variable holds what its declaration says.                          *)
TypeOK ==
    /\ volume \in Volumes \cup {NoVolume} /\ issued \in 0..MaxUid
    /\ disk \in [Uids -> Copies]
    /\ lock \in 0..MaxPod /\ pod \in Pods
    /\ work \in [Pods -> Works] /\ call \in [Threads -> Calls]
    /\ inventory \in [copies : SUBSET Uids, after : SUBSET Uids]
    /\ claim \in {"live", "bound", "gone"} /\ pv \in BOOLEAN
    /\ replied \subseteq Uids
    /\ asked \in 0..MaxDeletes /\ pending \in BOOLEAN /\ faults \in 0..MaxFaults

(* A volume whose creation was acknowledged, and that nobody asked to       *)
(* delete, stays the one Ready incarnation of its name: neither a retry of  *)
(* CreateVolume nor a retirement that was decided before the completion     *)
(* takes it away.                                                           *)
AcknowledgedVolumeStays ==
    \A u \in replied : asked = 0 =>
        volume.uid = u /\ volume # NoVolume /\ ValidReadyCreationHistory

(* Ready is written only over a directory that is placed in the Pool under  *)
(* the volume's name, whichever Pod created it.                             *)
ReadyVolumeIsPlaced ==
    volume # NoVolume /\ volume.phase = "Ready" =>
        disk[volume.uid].placed /\ disk[volume.uid].at = {"serving"}

(* While any directory of a copy exists, the object of its incarnation does *)
(* too, and with it the reservation it holds: the finalizer outlives every  *)
(* late effect of a replaced Pod.                                           *)
DiskIsReserved ==
    \A u \in Uids : disk[u].at # {} => volume.uid = u /\ volume # NoVolume

(* Once the local receipt says that a copy is gone, nothing of it comes     *)
(* back, not even from an executor that was waiting for the flock.          *)
ReceiptIsFinal ==
    \A u \in Uids : disk[u].receipt =>
        disk[u].at = {} /\ ~disk[u].marker /\ ~disk[u].placed

(* Wherever a creation is interrupted, what it leaves can be retired        *)
(* without a person looking at it.                                          *)
NoReviewNeeded == volume # NoVolume => volume.cleanup # "NeedsReview"

Unfinished == volume # NoVolume /\ volume.phase # "Ready"

(* An unfinished creation whose claim has ended is completed or disappears. *)
RetiredCreationDisappears == claim = "gone" /\ Unfinished ~> ~Unfinished

(* The volume of a claim that stays is eventually served, unless somebody   *)
(* asks to delete it (or the model has no further UID to give).             *)
LiveClaimIsServed ==
    claim = "live" ~> \/ claim # "live" \/ pending
                      \/ volume # NoVolume /\ volume.phase = "Ready"
                      \/ volume = NoVolume /\ issued = MaxUid

(* A DeleteVolume request eventually succeeds.                              *)
DeletionSucceeds == pending ~> ~pending
=============================================================================
