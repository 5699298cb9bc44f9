# A verification of ShiftPV

ShiftPV is a CSI driver that serves a directory of a node's disk as a
ReadWriteOnce volume, and that can move such a volume to another node while its
workload is stopped (a *planned cold move*).  Everything durable lives in
Kubernetes objects (`ShiftPVPool`, `ShiftPVVolume`, `ShiftPVMove`) and in marker
files on the node's disk.  The processes that act on them crash, restart, lose
replies and work from stale reads.  This directory holds TLA+ models of the
parts where those interleavings decide whether data survives, TLC
configurations for small instances, and TLAPS proofs for every instance.

All paths below are relative to the Go tree `src/src/` unless they start with
`docs/`.

## The system

| part | code | state | operations |
|---|---|---|---|
| move decision function | `mobility/fsm` | none (pure) | `Decide` |
| move controller | `mobility/controller`, `kubernetes/volumeapi/move*.go` | Move, Volume | observe, act, compare-and-set; recovery; settlement; history |
| move helper Jobs | `cmd/volume-helper`, `kubernetes/helperauth`, `mobility/controller/operation_job.go` | Jobs, Pods | copy, promote, verify owner |
| copy transfer | `node/ownership/transfer.go` | incoming directory, receipts | begin, finish, rename |
| publication | `node/publication`, `csi/node` | `publishedNodes`, mounts | publish, unpublish, reconcile |
| placement admission | `mobility/admission` | scheduling gates, node affinity | hold, pin to owner |
| cleanup journal | `kubernetes/cleanupapi` | `status.cleanup` | ensure, bind, report, fence, confirm, complete |
| cleanup controller side | `provisioning/nodeexecutor`, `provisioning/reclaim` | — | bind executor, retry, replace, settle |
| cleanup executor | `node/executor`, `node/ownership` | flock, intent, receipt, retired directory | approve, lock, retire, purge, report, collect |
| inventory scan | `node/observation`, `node/ownership/inventory.go`, `kubernetes/volumeapi/pool*.go` | Pool generation and status | scan, write status |
| volume creation and deletion | `csi/controller`, `provisioning/creation`, `lifecycle/creationcontroller`, `kubernetes/volumeapi/creation_*.go`, `node/ownership/serving.go`, `node/ownership/creation_cancel.go` | Volume, staged and serving directories | create, resume, cancel, delete |
| capacity ledger and admission | `pool/capacity`, `csi/controller/capacity.go`, `mobility/controller/preparation.go` | Volumes and Moves as reservations, Pool UID lock | admit, hold, convert, release |
| pool lifecycle | `lifecycle/poolcontroller`, `lifecycle/admission`, `pool/readiness`, `node/ownership/pool_release.go` | finalizer, approvals, identity on disk | delete, retire, release |
| pool measurement | `pool/measurement`, `node/rpc/server`, `kubernetes/volumeapi/pool_probe.go` | request annotation, `status.capacityProbe` | ask, answer, fall back |
| provisioning retry queue | `provisioning/retry.go`, `provisioning/consumer` | waiters | register, notify, expire |
| uninstall | `lifecycle/uninstall`, `cmd/uninstall-guard` | permit ConfigMap, gate | quiesce, acknowledge, grant, cancel |
| webhook certificates | `webhook/certificate` | Secret, CA bundles | rotate |
| discovery and dispatch | `mobility/controller/dispatcher.go`, `discovery.go`, `reconciler.go`, `mobility/history` | work queue | one lane per Volume |
| pool registration | `pool/registration`, `pool/capacityunit` | none (pure) | validate, compare devices |
| upgrade check | `lifecycle/upgrade` | none (reads) | check |
| node RPC | `node/rpc/protocol`, `connection`, `security` | connections | framing over mutual TLS |
| helper Pod construction | `kubernetes/helperpod` | none (pure) | build and compare Pod specifications |
| mount and file primitives | `node/mount` | none | system calls |
| metrics and wiring | `metrics`, `cmd/*`, `csi/server`, `csi/identity` | none | reads, process start |

`PROJECT.json` lists the exact files, what is modelled of each part, and the
line of code each definition stands for.

### How the parts interact

```
 operator --cordon, recover, delete--> Move <--CAS-- move controller --> Decide
                                        |                |
   workload, kubelet --publish--> Volume <--owner CAS----+--> helper Jobs --> disks
                                        |                |
                              status.cleanup (journal)   +--> placement Pod, holds
                                        |
     controller threads --bind, fence--> journal <--report-- Node Pod executor --> disk
                                        |
                                  Pool generation <-- inventory scan

 CreateVolume --gate--> retry queue --> Pool UID lock { ledger, measurement, intent }
      |                                     ^                    ^
   Volume --> Node Pod executor         move holds      Pool deletion, retirement
      ^
 creation controller (claim ended)      uninstall guard --permit--> gate, certificates
```

### What is hard about it

* A pass of the move controller reads about a dozen objects, decides, performs
  an effect and only then writes the phase.  Anything may change between, and
  the controller may die after the effect and before the write.
* The copy and the owner change rely on `publishedNodes` alone; kubelets publish
  and unpublish concurrently.
* Destructive work is done by a Node Pod that may already have been replaced in
  the API, and is reported by any of its successors.
* A Pool scan may be old: it took its listing before a purge and writes its
  status after it.
* A creation has three owners: the CSI call, the creation controller and the Node
  Pod.  Only compare-and-set writes of the Volume and a flock keep them apart.
* The capacity ledger is computed from two lists read one after the other, and
  the reservation it justifies is written later; a Pool may be deleted between.
* A waiter of the retry queue, an answer to a probe and an acknowledgement of
  the gate are each taken from one moment and used at a later one.
* Recovery, settlement of a deleted claim and history removal each cut across
  whatever phase the Move happened to be in.

## Modules

| module | role |
|---|---|
| `Cleanup` | reclaiming one copy: journal, controller threads, executors, scans, Pod life cycle; its properties |
| `ReclaimContract` | abstract: what a cleanup promises its parent |
| `CleanupProofs` | theorems about `Cleanup` |
| `MoveFSM` | `Decide` of `mobility/fsm`, rule by rule |
| `MoveFSMReasons` | what each decision of `MoveFSM` says about the observation it was made on |
| `Mobility` | one cold move: controller passes, helpers, executor, scanner, workload, operator; extends `MoveFSM` |
| `SingleCopy` | abstract: what a Volume promises its workload |
| `MobilityProperties` | properties, fairness and refinement mapping for `Mobility` |
| `MobilityInvariant` | the inductive invariant of `Mobility`, and the one on its reservation Pod (definitions only) |
| `MobilitySteps` | the decisions have their reasons; the invariant is kept by observations, helpers, executor, scanner, workload and environment |
| `MobilityProofs` | it is kept by every action of the controller; theorems about `Mobility` |
| `MobilityAccounting` | two further inductive invariants: a held replacement waits for the end of the reservation Pod, and capacity stays reserved for every copy |
| `Creation` | one volume name: CreateVolume, DeleteVolume, creation controller, executors on the node |
| `CreationProofs` | theorems about `Creation` |
| `Admission` | the capacity ledger and the life of a Pool under the Pool UID lock: creations, Moves, deletion and retirement of Pools |
| `MCAdmission` | TLC instance (sizes and limits) |
| `AdmissionInvariant` | the inductive invariant of `Admission` (definitions only) |
| `AdmissionSteps` | what every action of `Admission` writes; calls, volumes, copies and locks keep their invariants |
| `AdmissionProofs` | the ledger and the sums over it; theorems about `Admission` |
| `Measurement` | a capacity measurement over gRPC, annotation and helper Pod, and the Node that answers |
| `LiveProbe` | abstract: what a measurement promises admission |
| `Retries` | the retry queue, the calls that register and the loop that notifies |
| `Certificates` | rotation of the webhook CA |
| `Uninstall` | permit, gate, guard and creations in flight; extends `Certificates` |
| `HandshakeProofs` | theorems about `Uninstall` with `Certificates`, and about `Measurement` |

### Cleanup

`journal` is `status.cleanup` of the parent (a Volume being deleted or a Move
that retires a copy).  `ValidTransition` is the conjunction of rules that
`kubernetes/cleanupapi/transition.go` applies to every write, against the *current* status.
A controller thread (`ctl`) is one call of `Settler.Advance`: it reads a
snapshot, performs the outside call that the snapshot asks for (find an executor,
bump the Pool generation, read the Pool status), and writes.  It may stop
anywhere (`ControllerStops`).

`pods` is the API view of each incarnation of the node's resident Pod; `pc` is
where that incarnation's process is, which is deliberately independent of
`pods`: `RemovePod` does not stop the process.  The steps of `Worker` are the
durable effects of `node/ownership/reclaim.go` in order: approve, flock,
intent, recheck authority, rename into `retired/`, purge, receipt, remove
markers, report.  The disk is `home`, `retired`, `intent`, `receipt`,
`metadata`.  A scan is `StartScan`, `ScanPhysical`, `ScanRecords`,
`SetPoolStatus`, so a listing can be overtaken by a purge.

Data that is equal by construction for one cleanup (parent, operation and copy
identities), times, digests and messages are left out.

### MoveFSM and Mobility

`MoveFSM!Decide(o)` takes a record of observations and returns a decision
(action, next phase, ...) with the rules in the order of the code: cancellation
and settlement first, then recovery, then the rules of the current phase.

`Mobility` has one Volume, one Move, source node `src` and destination `dst`.

| variable | stands for |
|---|---|
| `vol` | phase, owner, active-Move lock and `publishedNodes` of the Volume |
| `mv` | phase, recovery phase, disk plan, hold, approval, intents, settlement request, scan fence, finalizer of the Move |
| `journal` | the Move's cleanup journal, `Cleanup` abstracted to Running, Purged, Completed |
| `ctl` | the pass: idle, act, act2, persist, with the decision, the Volume it read, and whether its version of the Move is still current |
| `pods`, `placement` | the consumer and its replacement with their mounts; the reservation Pod |
| `jobs` | helper Jobs with the progress of their Pods, and the executor |
| `disk` | copies on source, in `incoming`, on destination (0 absent, -1 incomplete, otherwise the last write held), and receipts |
| `pool` | destination Pool generation, published inventory, running scan |

A pass is `Observe` (read and decide), `Act` (effect against the cluster of
*that* moment; some actions have a `SecondEffect`), `Persist` (compare-and-set
of the Move).  `Crash` may come between any two.  Observation errors and
transient refusals are inputs `t` of `Observe`.  Every write of the
Move by somebody else marks the pass `Stale`, so that its own write is refused;
the Volume it carries is compared when it writes the Volume (`StateMatches`).

Helpers check their authority twice, as the code does, once before the effect
and once before they report.  The set `Inputs` says what operator and
environment may do in an instance:

| input | meaning |
|---|---|
| `uncordon`, `recover`, `delete`, `retire` | operator uncordons, requests `ResumeOwner`, deletes the Move, the claim is deleted |
| `sick`, `down`, `optout`, `ambiguous`, `deferred`, `space` | unhealthy source, destination down, namespace leaves admission, several consumers, disruption budget refuses, no capacity |
| `preempt`, `expire`, `fail`, `rollout` | placement Pod preempted, finished Job removed by its TTL, helper fails, workload controller replaces a bound Pod |

### Creation

One CSI name on one Pool.  `volume` is the object with its journal, incarnations
are numbered, `disk` says for each incarnation where a directory of it lies
(staged, serving, retired) and which markers exist.  `call` has two threads: the
CSI call (CreateVolume and DeleteVolume of one name exclude each other by the
per-volume lock) and the creation controller, which takes no lock.  Each API
write is a step, with the compare-and-set conditions of the code.  `work` is
what the process of each Pod incarnation is doing; as in `Cleanup`, a replaced
Pod's process goes on until it next reads its authority.  The steps of the
executor are the durable effects of `ensureServing` and `cancelCreation`.

### Admission

`vol` and `mv` keep of Volumes and Moves what the ledger and Pool references can
see.  A reservation (`csi`, `mob`) is lock, list Volumes, list Moves and measure,
write.  The Pool controller (`ctl`) lists and decides under the same lock and
writes its approvals; the Node (`node`) reports its inventory and releases the
identity without a lock.  Of a Move's later writes, as in the code, the
conversion of its hold and the owner commit need the destination's lock; cleanup,
recovery and settlement do not.

### Measurement and Retries

`Measurement`: `probe` is the controller's call, `node` the worker that answers
annotations, `request` and `answer` what is stored in the Pool.  A generation
stands for the measurement evidence, `room` for the bytes.  `seen` is a history
variable: what could be observed since the call began.  `LiveProbe` is the
promise in five actions.

`Retries`: `waiting` is the index in the order of `firstSeen`; `pass` is the
loop with its snapshot and its budget; a call is `ObservePools` and
`AttemptCreateInPool`, in which the Pool lock makes ledger, measurement and
intent one step (`Admission`), and the measurement may fail at any
time (`LiveProbe`).  `owed` is a history variable: claims with a right to a
notification.

### Uninstall and Certificates

`permit` is the ConfigMap, `gate` the controller's copy of it, `inside` the
creations in flight, `guard` the uninstall guards with their step and attempt.
`Expire` is the permit's time-out.  The
Pool controller's pass reads the permit and writes a finalizer in two steps
(`ensuring`).  `Certificates` is the manager's pass, one API
call per step: publish old and new CA together, write the Secret, serve,
publish the new CA alone.  The two meet at the validating webhook, which the
guard removes and the manager keeps publishing unless the gate stops it.

## Runs

All instances run with two workers in four minutes or less.

| run | states | what it shows |
|---|---|---|
| `cleanup` | 644 k | two incarnations of the Node Pod, two faults: a receipt is evidence, no executor is inside an effect once one has reported, the scan fence is causal, renames are journaled, the whole implements `ReclaimContract`, and a requested cleanup settles |
| `mobility_protocol` | 592 k | all inputs, one fault: no write is lost, lock and record, reservation across the disruption, recovery quiescence, durable decisions |
| `mobility_data` | 435 k | two faults, two writes: mounts are fenced, cleanup never names the owner, every copy beside the owner's belongs to an approved, unsettled Move, a held Pod is released only when the reservation is gone, ownership only moves forward, and the whole implements `SingleCopy` |
| `mobility_live` | 17 k | a Move concludes through passing trouble, its workload serves again on the destination, and deleting the claim releases the Volume and settles the Move |
| `mobility_recovery_live` | 10 k | `ResumeOwner` brings a blocked Volume back into service |
| `creation_safety` | 2.5 M | two incarnations of the name, two of the Pod, one fault: an acknowledged volume stays, Ready means placed, a directory never outlives its object, nothing comes back after a receipt, and no interruption needs a person |
| `creation_live` | 109 k | one incarnation, a Pod replaced on the way: a live claim is served, an abandoned creation is completed or goes, a deletion succeeds |
| `admission` | 480 k | two volumes, one of them moved and the other deleted, two Pools with room for either but not for both, one Pool deleted or retired: reservations stay within the limit, every copy on disk is reserved, a Pool in use keeps registration and identity |
| `admission_late_resume` | | expected violation, see *Findings* |
| `uninstall` | 683 k | a guard with two attempts, a creation, three CAs, one fault: an acknowledgement means quiet, a grant means that nothing is left, rotation keeps trust, an uninstall that is given up is undone |
| `measurement` | 843 k | the three transports implement `LiveProbe` |
| `retries` | 376 k | two claims, room for one, an index of two: no registered claim is forgotten, none that could be placed starves |

Every module has a type invariant `TypeOK`.  It holds in the same instances; the
runs list only the properties that say something about the protocols.  Each
property has a mutant, a plausible slip in one definition (`Mutant:` in the
comments), under which TLC finds it violated.

### Bounds and why they are enough

* `Pods = {p1, p2}`: the hazards of replacement are an old process beside its
  successor.  `CleanupProofs` removes the bound.
* `Controllers`: one, which works from a stale snapshot.  Several threads are
  covered by the proofs; two with one fault (401 thousand states) were also
  checked for safety.
* `MaxFaults` bounds crashes, lost replies, Pod deletions, failed observations.
  Most hazards need one (an effect done, its record lost); the data runs use
  two, so that the recovery from the first can itself be interrupted.
* `MaxWrites` of two makes "the last write" differ from "the first", which is
  what tells a complete copy from a stale one.
* The safety runs of `Mobility` split the inputs, because all of them with two
  faults exceed the five minutes a run should take.  That larger instance,
  without `rollout`, was explored once: 1.79 million states, and every safety
  property but `EveryCopyIsAccounted` (see finding *d*) holds in it.  Two larger
  instances were also explored once without an error: `Cleanup` with two threads
  and two faults (3.9 million states, safety), and `mobility_live` with `uncordon` and two
  faults (76 thousand states, seven minutes).
* `Creation`: two UIDs make a late effect of one incarnation meet the next; two
  Pods as for `Cleanup`; one DeleteVolume.  The liveness run has one UID and no
  fault beside the replacement of the Pod and the loss of any reply.
* `Admission`: two volumes of different sizes are the smallest case in which
  what one reserves decides about the other; sizes count in units, because the
  ledger only adds and compares.  One of them is moved and the other deleted.
  With both deleted (2.49 million states) the three properties were checked
  once.
* `Measurement`: four nonces, one for each place that may hold an old one
  (request, answer, worker) and a new one; one edit of the Pool.  The proofs
  remove both bounds.
* `Retries`: with two claims and a budget of one a pass leaves somebody
  over, which is what starvation needs.
* `Uninstall`: `MaxAttempts` of two lets an attempt be overtaken by the next;
  three CAs are two rotations.  The proofs remove the bounds on guards, calls and
  attempts.
* Deadlock checking is on except for `Mobility`.
  It is off for `Mobility`: a Move that ended and a workload that has made its
  `MaxWrites` writes is a resting state.

### Fairness

`Cleanup`: weak fairness of every controller thread, every worker, every
scanner and the Pod life cycle (`Settler` and executor are retry loops, scans
are periodic, the DaemonSet recreates its Pod, the kubelet finishes a
deletion), and of the return of authority, because an unready Pool is
reported as such and otherwise waits for an operator.

`Mobility`: weak fairness of `Look`, `Act`, `Persist` (a Volume is requeued
after each pass and relisted periodically), of each helper, the executor, the
scanner, workload and kubelets, the scheduler, and the closing of a claim that
is being deleted.  Nothing is assumed of the operator, and faults are bounded:
`MoveConcludes` speaks of a cluster whose troubles pass.

`Creation`: weak fairness of the steps of a call and of the creation controller,
of each executor and of the scan; strong fairness of the start of CreateVolume
and of a repeated DeleteVolume, because the provisioner retries both for ever and
each waits while another call holds the volume's lock, a `sync.Mutex`, which
hands over to the longest waiter.

`Retries`: weak fairness of the loop (a ticker) and of a call under way.  The
provisioner's own retries, the return of the Pool and free space are not
assumed.

`Uninstall`: weak fairness of the gate's and the manager's tickers, of the Pool
controller's pass, of the Node's report, of the return of a call, of a guard's next
step and of the permit's expiry.  Nothing makes an operator begin an uninstall,
and a guard may die.

`sick` is not among the inputs of `mobility_live`.  `markBlocked` fences the
Volume first and writes the Move second.  If the controller stops between the
two and the source is healthy at the next pass, the Move continues in
`Promoting` while the Volume is Blocked; the owner compare-and-set then
conflicts until the TTL removes the finished Job and the next look blocks the
Move properly.  The TTL is a bounded fault here, not a fair action, so that
instance would report the wait as forever.

## Findings

Five places where the code does not do what a comment or document says.
Finding *e* is the run `admission_late_resume`.  The others have a
configuration of their own, which TLC finds violated:
`tlc -config MobilityOptOut.cfg MobilityProperties`, and likewise for
`MobilityRetireAfterUnlock.cfg`, `MobilityRetireInRecovery.cfg` and
`MobilityExpiredJob.cfg`.

a. **`MobilityOptOut`** — `observe_workload.go:59` returns early when the
   namespace is not enrolled in admission; the zero values read as "the
   reservation is gone", and the held replacement is released while the
   reservation Pod is still terminating.  The comment at line 179 says "Keep
   the workload held until the reservation is actually NotFound."
b. **`MobilityRetireAfterUnlock`** — the controller stops after
   `CompleteRecovery` unlocked the Volume and before `Recovered` is written,
   and the claim is deleted.  `RequestSettlement` is then decided and refused on
   every pass (`workload_settlement.go:159`).  `docs/spec/volume-mobility.md:365`
   says such a deletion "cannot strand Move metadata".
c. **`MobilityRetireInRecovery`** — the claim is deleted while the
   verification Job of a recovery runs.  The settlement resets the recovery
   phase, the Job loses its authority and fails without retry or TTL, and the
   settlement later stops at its own failed Job
   (`recovery_resources.go:139`).  `docs/development/lifecycle-closure-plan.md:56,90`
   require the settlement to advance without manual deletion.
d. **`MobilityExpiredJob`** — the controller stops after creating the promotion
   Job; the finished copy Job expires and is recreated, and leaves an incoming
   directory after the Move ended (`operation_job.go:76`).  `docs/spec/README.md:29`
   says every physical copy is counted.
e. **`admission_late_resume`** — `resumeExistingCreate`
   (`csi/controller/capacity.go:86`) calls `BeginCreate` for a volume it has read
   before, without the Pool lock and without a capacity check.  If the
   unfinished creation is cancelled and removed in between, `BeginCreate` places
   it anew, and the Pool is promised more than its limit.  The comments say that
   the call keeps "the original capacity hold" (line 85) and that "Admission and
   its durable intent share the Pool UID lock" (line 171).

The passing runs use input sets in which these sequences do not occur
(`LateResume = FALSE` for *e*), so the properties are checked in the remaining
behaviours.

## Proofs

`CleanupProofs` proves for any set of Pods and controllers and any number of
faults, from `NoPod \notin Pods` alone:

| theorem | states |
|---|---|
| `TypeCorrect` | `Spec => []TypeOK` |
| `ReceiptsAreEvidence` | `Spec => []ReceiptIsEvidence` |
| `SettledCleanupIsQuiet` | `Spec => []SettledIsQuiet` |
| `FenceCausality` | `Spec => []FenceIsCausal` |
| `RetirementIsJournaled` | `Spec => RetireIsJournaled` |
| `CleanupImplementsContract` | `Spec => ImplementsContract` |

None of the invariants is inductive alone.  `IInv` adds:

* `LockInv`: a process inside the critical section holds the flock, so there is
  at most one;
* `EffectInv`: what each program counter implies about the disk and the journal.
  In particular, a process past its recheck finds the journal still Running,
  because nobody can have produced a receipt without the lock;
* `DiskInv`: marker files against directories (a receipt excludes the target, a
  retired directory has an intent);
* `JournalInv`: phases that follow a receipt are exactly those with one;
* `SnapshotInv`: a snapshot agrees with the journal on what is immutable, which
  makes a stale write harmless;
* `FenceInv`: every scan or status stamped with the fence generation or later
  was made after the purge, including a fence a controller has obtained and not
  yet recorded.

The proof that a step keeps `IInv` goes by process (controllers, workers by
step, scanners, environment), and under each by conjunct.  The refinement proof
maps each step to one step of the contract or a stutter, from the same `IInv`.

`HandshakeProofs` holds the proofs of the two components in which one process writes
a request into an object and waits there for the answer of another.  About
`Uninstall` it proves, for any sets of calls and guards and any bounds, from
`MaxCA >= 1` and the bounds being natural numbers:

| theorem | states |
|---|---|
| `UninstallIsQuiet` | `Spec => []AcknowledgedIsQuiet` |
| `UninstallLeavesNothing` | `Spec => []GrantedLeavesNothing` |
| `RotationKeepsTrust` | `Spec => []ServedCertificateIsTrusted` |

Its `IInv` adds `GateInv` (an acknowledgement stands for a closed gate, and
nothing the gate has read will open it), `GuardInv` (attempts are not reused; a guard whose
attempt still waits has passed each stage under the acknowledgement, which has
kept its result) and `CertificatesInv` (what is served, stored and about to be
served is in the published bundle, or will be before it is needed).  `CertificatesInv`
is inductive by itself and is proved first, call by call of the manager; the
rest goes by process (gate, calls, guards, the others).

About `Measurement` it proves, for any set of nonces and any number of edits, from
`"none" \notin Nonces` and `MaxGen \in Nat`:

| theorem | states |
|---|---|
| `MeasurementIsLive` | `MeasurementSpec => []MeasuredIsLive`: what is returned was observable since the call, or is an error |
| `MeasurementImplementsProbe` | `MeasurementSpec => ImplementsProbe` |

`LiveInv` says that what is observable now has been recorded as seen, and that a
result which carries the nonce awaited, in the Node's worker or in the Pool's
status, was seen during this measurement.  A fresh nonce makes this true when
the request is published, and the compare of the Node's record with the request
keeps it.  The refinement follows from the same invariant, step by step.

`CreationProofs` proves for any number of incarnations of a name, of Node Pods,
of deletions and of faults (`CreationAssumption`: the bounds are natural numbers
and there is a Pod):

| theorem | states |
|---|---|
| `TypeCorrect` | `Spec => []TypeOK` |
| `AcknowledgedKept` | `Spec => []AcknowledgedVolumeStays` |
| `ReadyPlaced` | `Spec => []ReadyVolumeIsPlaced` |
| `DiskReserved` | `Spec => []DiskIsReserved` |
| `ReceiptFinal` | `Spec => []ReceiptIsFinal` |
| `ReviewNeverNeeded` | `Spec => []NoReviewNeeded` |

Its `IInv` has one conjunct per place where a stale value can sit: `VolumeInv`
(what each phase of the object implies), `DiskInv` (the shape of a copy between
two durable writes, and its agreement with the object), `WorkInv` (what a process
of a Node Pod may rely on, with the flock and without), `CallInv` (what a call may
rely on after a read: the object may have gone, but its UID does not come back),
and `RepliedInv`.  A write of the object is reasoned about once: `VolumeWrite`
says which writes are permitted, and each conjunct is shown to survive any
permitted write.  The remaining proof goes by action.

`AdmissionProofs` proves for any finite set of volumes of any positive size, any
Pools with any limits, any Moves and any deletions of volumes and Pools:

| theorem | states |
|---|---|
| `TypeCorrect` | `~LateResume => (Spec => []TypeOK)` |
| `LimitKept` | `~LateResume => (Spec => []ReservedWithinLimit)` |
| `CopiesReserved` | `~LateResume => (Spec => []EveryCopyIsReserved)` |
| `ReferencedPoolKept` | `~LateResume => (Spec => []ReferencedPoolStays)` |

`LateResume` is the constant that admits the resumption outside the Pool lock of
finding *e*, under which `ReservedWithinLimit` is false; the theorems cover every
other behaviour.  The ledger is a sum over a set of volumes, written as a
cardinality (`Bytes`), so that its laws (`BytesMonotone`, `BytesUnion`,
`BytesAdd`) follow from the library's theorems on finite sets without induction.
The argument: a step adds a charge to a Pool only under the Pool's lock
(`LedgerStep`), at most one process holds it (`LockInv`, `OneAdds`), and what the
holder has listed, in two reads, still covers everything the ledger charges
(`SnapshotInv`); so what fits the lists fits the ledger (`CapacityInv`).  The
same `LedgerStep` gives `ReleaseInv`, which keeps a referenced Pool: a new
reference is an addition, and it excludes the release that holds the lock.

`MobilitySteps` proves `DecisionsAreReasoned`: for every phase, recovery phase and
observation, a decision of `Decide` records and does only what the phase that was
read or a fact that was observed justifies.  It and `DecisionsKeepPlacement` (below)
are all that the proofs about `Mobility` use of the decision function.
`MobilitySteps` and
`MobilityProofs` then prove, for any set of inputs, including `"expire"`, and any
number of writes and faults (`MobilityAssumption`):

| theorem | states |
|---|---|
| `TypeCorrect` | `Spec => []TypeOK` |
| `EveryWriteKept` | `Spec => []OwnerHasEveryWrite` |
| `MountsFenced` | `Spec => []MountsAreFenced` |
| `OwnerSpared` | `Spec => []CleanupSparesOwner` |
| `LockRecorded` | `Spec => []LockHasRecord` |
| `DisruptionReserved` | `Spec => []ReservationSpansDisruption` |
| `RecoveryQuiet` | `Spec => []RecoveryIsQuiet` |
| `OwnerForward` | `Spec => OwnerMovesForward` |
| `DecisionsDurable` | `Spec => DecisionsAreDurable` |
| `MobilityImplementsSingleCopy` | `Spec => ImplementsSingleCopy` |

A pass decides on an observation and acts when the cluster may have changed, so
the invariant has two halves.  The first says what the API objects and the disk
record: `VolumeInv` (a Volume out of service is locked and has its Move),
`PlanInv` (the order of the Move's decisions), `PhaseInv` (what a recorded phase
stands for), `JournalInv` (a cleanup is journaled only when no owner commit can
come any more, or after it), `JobInv` (helpers work one at a time and complete
behind their receipts) and `DataInv` (a copy with a receipt is complete and in
exactly one place, while the source is out of service under the plan).  The
second, `PassInv`, says what of its observation a pass can still rely on:
`Outlook` for the phase it will persist and `Grounds` for each action it may
take.  Phase, owner and lock of the Volume and every decision of the Move are
written by the controller alone, one pass at a time; receipts and the retirement
of a claim are not undone; publication may change, and nothing relies on it.
An observation is shown to be truthful (`Witnessed`), `DecisionsAreReasoned` turns
this into `Outlook` and `Grounds`, and each action is shown to keep the first half
from them.  The refinement maps a mount to the node it is on; it follows from
`IInv` before and after the step.

`MobilityAccounting` adds

| theorem | states |
|---|---|
| `ReplacementWaits` | `Spec => HeldUntilPlacementGone`, assuming `"optout" \notin Inputs` |
| `CopiesAccounted` | `Spec => []EveryCopyIsAccounted`, assuming `"expire" \notin Inputs` |

The first assumption is the input of finding *a*: a namespace that opts out is read
as one that needs no reservation.  Without it the reservation Pod has an invariant
of its own, `HInv`.  Its half on the objects, `PlacementInv`, says that a Move with a
reservation Pod has its finalizer and is not past the phase, or the recovery phase,
that waits for the end of that Pod.  Its half on a pass under way, `PassPlacement`,
says that a pass that will record such a phase has seen the Pod gone, that a pass that
lets the replacement go is one of these, and that a pass that creates the Pod does so
before them.  `DecisionsKeepPlacement` and `LookPlacement` of `MobilitySteps` derive
this from `Decide` and from the observation the pass began with.

The second assumption is the one `MobilityExpiredJob.cfg` refutes the property without
(finding *d*).  The property speaks of the moment a reservation is given back, so
another invariant, `AInv`, is proved on top of `IInv`.  It says what is on the
disks at each end of a Move: `HelperInv` (the copy Job behind a recorded promotion
is complete and stays, so nobody starts another), `TargetInv` (a purged journal's
target is empty), `FenceInv` and `Covers` (an inventory of the current generation
whose scan began behind recovery's fence has seen every copy there is, and behind
the fence no helper can add one), `EndInv` (a Move that has settled has left
nothing beside the owner's copy) and `PassAccounts` (what a pass under way may rely
on when it purges, settles or succeeds).  `AInv` was model-checked on the instances
of `MobilityData.cfg` and `MobilityProtocol.cfg` before it was proved.

Only model-checked:

* liveness: it needs fairness and ENABLED, which the prover does not handle;
* `Retries`: its queue is filtered with `SelectSeq`, a recursive definition, and
  what that returns for every queue is an induction over data.

## Modelling assumptions

* The controller is one replica with strategy Recreate and each Volume is one
  serial lane, so `Mobility` has one pass at a time.  `Cleanup` does not rely on
  this and allows several threads.
* The kubelet serialises publish and unpublish of one Pod's volume.
* The cleanup protocol is abstracted in `Mobility` to a journal with one
  authorised purge and a completion; `Cleanup` is its detailed model, and
  `ReclaimContract` states what `Mobility` uses of it.
* Conditions that lead to the same refusal (source Pod not ready, validation of
  a status write) are folded into one.
* CreateVolume and DeleteVolume of one name are serial (the driver's per-volume
  lock); the external provisioner retries until it is answered.
* A random request identifier is not in use anywhere else.
* A CA is due for rotation long after the last rotation has settled.
* In `Admission` a volume has one Move; in `Retries` one Pool stands for the
  candidates, and the reading of consumers is an arbitrary answer.
* In `Uninstall` one volume stands for all dependents and one Pool for all Pools.
* There is one replacement Pod at a time; a rollout happens only after the disk
  plan is recorded.
* `rename`, `mount` and the write of a marker are atomic, as the code assumes
  after its fsync.

## Not modelled

* **Discovery and dispatch of Moves** (`mobility/controller/dispatcher.go`,
  `discovery*.go`): `Mobility` begins with the Move that the Volume's lane has
  created.  Retirement of a Move's history is part of `Mobility`.
* **Candidate choice, source usage, scheduling compatibility**: they select among
  destinations; the protocol is the same for each.
* **Bytes**: the overflow checks of the ledger, parsing of quantities and the
  reserve kept free; sizes are small numbers in `Admission` and a Boolean in
  `Measurement`.
* **Readiness probes and device collisions** (`pool/readiness`, `pool/registration`,
  `pool/capacityunit`): reads and pure comparisons; readiness is an input.
* **Legacy objects and helpers** of earlier releases, the upgrade check, preserved
  Pools at uninstall.
* **Removal of the Pool's object after a grant**: `Uninstall` ends with the
  grant.  The Pool controller reads once per pass that no uninstall is under way
  (`lifecycle/poolcontroller/reconciler.go:70`) and adds its finalizer later.
  `Uninstall` contains both steps, and TLC finds a behaviour in which the write
  comes after a guard has released the Pool: `Granted => ~protected` does not
  hold.  The code does not exclude it, and no property is stated of it.
* **Node RPC framing, Pod specifications, mounts, metrics, process wiring**: no
  state that a property is about.
