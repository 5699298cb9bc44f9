--------------------------- MODULE CleanupProofs ---------------------------
(***************************************************************************)
(* The safety properties of Cleanup for any number of Pods, controller     *)
(* threads and faults.                                                     *)
(***************************************************************************)
EXTENDS Cleanup, TLAPS

(* The provers of a leaf that names none.                                    *)
USE SMTT(15), Z3T(15), ZenonT(30)

(* The steps of a worker that hold the flock.                               *)
HeldSteps == {"locked", "checked", "cleared", "retired", "purged", "receipted"}

LockInv == \A p \in Pods : pc[p] \in HeldSteps => lock = p

(* What a worker knows at each step it has reached.                         *)
EffectInv ==
    \A p \in Pods :
        /\ pc[p] \in EffectSteps =>
              /\ intent /\ ~receipt
              /\ journal.phase \in {"Running", "NeedsReview"}
        /\ pc[p] \in {"retired", "purged"} =>
              /\ home # "target"
              /\ journal.phase = "Running"
              /\ \A q \in Pods : pc[q] # "review"
        /\ pc[p] = "purged" => ~retired
        /\ pc[p] = "receipted" => receipt
        /\ pc[p] = "report" =>
              ~TargetOnDisk /\ ~metadata /\ (receipt \/ journal.phase = "Gone")
        /\ pc[p] = "review" => home = "other"

DiskInv ==
    /\ receipt => ~TargetOnDisk
    /\ home = "target" => metadata /\ ~retired
    /\ retired => intent
    /\ home = "none" => intent \/ journal.phase = "Gone"
    /\ journal.phase = "NeedsReview" => home = "other"

JournalInv ==
    /\ journal.phase \in {"Verifying", "ConfirmingAbsence", "Completed", "Gone"}
          <=> journal.receipt # NoPod
    /\ journal.required > 0 => journal.receipt # NoPod

(* A snapshot is of this journal's past: what is immutable agrees with it.  *)
SnapshotInv ==
    \A c \in Controllers :
        /\ ctl[c].snap.receipt # NoPod => journal.receipt # NoPod
        /\ ctl[c].snap.required > 0 => ctl[c].snap.required = journal.required
        /\ ctl[c].step = "bind" => ctl[c].executor # NoPod
        /\ ctl[c].step = "fence" =>
              ctl[c].snap.receipt # NoPod /\ ctl[c].generation > 0

(* Every observation stamped g or later was made after the purge.           *)
FencePast(g) ==
    /\ g <= generation
    /\ status.generation >= g => ~status.present
    /\ \A p \in Pods : scan[p].generation >= g => ~scan[p].present

FenceInv ==
    /\ status.generation <= generation
    /\ \A p \in Pods : scan[p].generation <= generation
    /\ journal.required > 0 => FencePast(journal.required)
    /\ \A c \in Controllers : ctl[c].step = "fence" => FencePast(ctl[c].generation)

IInv ==
    /\ TypeOK /\ LockInv /\ EffectInv /\ DiskInv /\ JournalInv /\ SnapshotInv
    /\ FenceInv /\ ReceiptIsEvidence

-----------------------------------------------------------------------------
(* Typing: every action writes values of the declared sets.                 *)
LEMMA InitType == Init => TypeOK
<1> SUFFICES ASSUME Init PROVE TypeOK OBVIOUS
<1>1. Empty \in Journals BY DEF Empty, Journals, Phases
<1>2. NoWork \in Works BY <1>1 DEF NoWork, Work, Works
<1>3. NoScan \in Scans BY DEF NoScan, Scan, Scans
<1>4. status \in Statuses BY DEF Init, Statuses
<1> QED BY <1>1, <1>2, <1>3, <1>4, Zenon DEF Init, TypeOK, PodStates, Steps

LEMMA JournalType ==
    ASSUME NEW j \in Journals, NEW ph \in Phases, NEW e \in Pods \cup {NoPod},
           NEW r \in Pods \cup {NoPod}, NEW g \in Nat
    PROVE  /\ [j EXCEPT !.phase = ph] \in Journals
           /\ [j EXCEPT !.phase = ph, !.executor = e] \in Journals
           /\ [j EXCEPT !.phase = ph, !.executor = e, !.receipt = r] \in Journals
           /\ [j EXCEPT !.phase = ph, !.required = g] \in Journals
           /\ [j EXCEPT !.phase = ph, !.observed = g] \in Journals
BY ZenonT(30) DEF Journals

LEMMA ControllerType ==
    ASSUME TypeOK, NEW c \in Controllers, Controller(c) \/ ControllerStops(c)
    PROVE  TypeOK'
<1> USE DEF disk, node, pool
<1>0. /\ Empty \in Journals /\ NoWork \in Works
      /\ Snap(c) \in Journals
      /\ ctl[c].executor \in Pods \cup {NoPod} /\ ctl[c].generation \in Nat
      /\ status.generation \in Nat
   BY DEF TypeOK, Empty, Journals, Phases, NoWork, Work, Works, Snap, Statuses
<1>w. \A s \in {"read", "bind", "fence", "settle"}, j \in Journals,
         e \in Pods \cup {NoPod}, g \in Nat : Work(s, j, e, g) \in Works
   BY DEF Work, Works
<1>p. {"Pending", "Running", "ConfirmingAbsence", "Completed"} \subseteq Phases
   BY DEF Phases
<1>1. CASE Ensure(c)
   BY <1>0, <1>1, <1>p, JournalType, Zenon DEF Ensure, TypeOK
<1>2. CASE ReadJournal(c) BY <1>2, <1>0, <1>w, Zenon DEF ReadJournal, TypeOK
<1>3. CASE FindExecutor(c) BY <1>3, <1>0, <1>w DEF FindExecutor, TypeOK, Done
<1>4. CASE BindCleanup(c)
   BY <1>4, <1>0, <1>p, JournalType, Zenon DEF BindCleanup, UpdateStatus, TypeOK, Done
<1>5. CASE RequestPoolScan(c)
   <2>1. generation' \in Nat BY <1>5 DEF RequestPoolScan, TypeOK
   <2>2. Work("fence", Snap(c), NoPod, generation') \in Works
      BY <2>1, <1>0, <1>w
   <2> QED BY <1>5, <2>1, <2>2 DEF RequestPoolScan, TypeOK
<1>6. CASE RecordFence(c)
   BY <1>6, <1>0, <1>p, JournalType, Zenon DEF RecordFence, UpdateStatus, TypeOK, Done
<1>7. CASE ReadScan(c)
   <2>1. Work("settle", Snap(c), NoPod, status.generation) \in Works
      BY <1>0, <1>w, Zenon
   <2> QED BY <1>7, <2>1, <1>0 DEF ReadScan, TypeOK, Done
<1>8. CASE SettleAbsence(c)
   BY <1>8, <1>0, <1>p, JournalType, Zenon DEF SettleAbsence, UpdateStatus, TypeOK, Done
<1>9. CASE ControllerStops(c)
   BY <1>9, <1>0 DEF ControllerStops, TypeOK, Done, Fault
<1> QED BY <1>1, <1>2, <1>3, <1>4, <1>5, <1>6, <1>7, <1>8, <1>9 DEF Controller

LEMMA NodeType ==
    ASSUME TypeOK, NEW p \in Pods, Worker(p) \/ WorkerFails(p)
    PROVE  TypeOK'
<1> USE DEF disk, node, pool
<1>s. /\ {"idle", "approved", "locked", "checked", "cleared", "retired",
          "purged", "receipted", "report", "review"} \subseteq Steps
      /\ {"Verifying", "NeedsReview"} \subseteq Phases
      /\ Empty \in Journals
   BY DEF Steps, Phases, Empty, Journals
<1>g. ASSUME NEW s \in Steps, Goto(p, s) PROVE pc' \in [Pods -> Steps]
   BY <1>g DEF Goto, TypeOK
<1>l. ASSUME NEW s \in Steps, Leave(p, s)
      PROVE pc' \in [Pods -> Steps] /\ lock' \in Pods \cup {NoPod}
   BY <1>l DEF Goto, TypeOK, Leave, Unlock
<1>1. CASE Approve(p) BY <1>1, <1>s, <1>g DEF Approve, TypeOK
<1>2. CASE Acquire(p) BY <1>2, <1>s, <1>g DEF Acquire, TypeOK
<1>f. ASSUME FinishMetadata(p)
      PROVE  /\ pc' \in [Pods -> Steps] /\ lock' \in Pods \cup {NoPod}
             /\ metadata' \in BOOLEAN
   BY <1>f, <1>s, <1>l, Zenon DEF FinishMetadata, TypeOK
<1>3. CASE ReplayReceipt(p)
   BY <1>3, <1>s, <1>l, <1>f DEF ReplayReceipt, TypeOK
<1>4. CASE PrepareIntent(p)
   BY <1>4, <1>s, <1>l, <1>g, Zenon DEF PrepareIntent, TypeOK
<1>5. CASE Recheck(p) BY <1>5, <1>s, <1>l, <1>g DEF Recheck, TypeOK
<1>6. CASE Retire(p) BY <1>6, <1>s, <1>l, <1>g, Zenon DEF Retire, TypeOK
<1>7. CASE Purge(p) BY <1>7, <1>s, <1>g, ZenonT(30) DEF Purge, TypeOK
<1>8. CASE PersistReceipt(p) BY <1>8, <1>s, <1>g DEF PersistReceipt, TypeOK
<1>9. CASE SettleReclaim(p) BY <1>9, <1>f DEF SettleReclaim, TypeOK
<1>10. CASE Report(p)
   BY <1>10, <1>s, <1>g, JournalType, ZenonT(30) DEF Report, UpdateStatus, TypeOK
<1>11. CASE ReportReview(p)
   BY <1>11, <1>s, <1>g, JournalType, ZenonT(30) DEF ReportReview, UpdateStatus, TypeOK
<1>12. CASE WorkerFails(p) BY <1>12, <1>s, <1>l DEF WorkerFails, TypeOK, Fault
<1> QED BY <1>1, <1>2, <1>3, <1>4, <1>5, <1>6, <1>7, <1>8, <1>9, <1>10, <1>11,
           <1>12 DEF Worker

LEMMA PodType ==
    ASSUME TypeOK, NEW p \in Pods,
           \/ Scanner(p) \/ PodLife(p) \/ RestartContainer(p) \/ DeletePod(p)
    PROVE  TypeOK'
<1> USE DEF disk, node, pool
<1>0. /\ scan[p] \in Scans /\ NoScan \in Scans /\ "idle" \in Steps
      /\ scan[p].generation \in Nat
      /\ scan[p].paths \in SUBSET {"home", "retired"}
      /\ Paths \in SUBSET {"home", "retired"}
   BY DEF TypeOK, NoScan, Scan, Scans, Steps, Paths
<1>w. \A s \in {"listed", "paths", "write"}, g \in Nat,
         ps \in SUBSET {"home", "retired"}, v \in BOOLEAN, q \in BOOLEAN :
            Scan(s, g, ps, v, q) \in Scans
   BY DEF Scan, Scans
<1>1. CASE StartScan(p) BY <1>1, <1>0, <1>w, Zenon DEF StartScan, TypeOK
<1>2. CASE ScanPhysical(p)
   <2>1. Scan("paths", scan[p].generation, Paths, FALSE, FALSE) \in Scans
      BY <1>0, <1>w, Zenon
   <2> QED BY <1>2, <2>1, Zenon DEF ScanPhysical, TypeOK
<1>3. CASE ScanRecords(p)
   <2>1. InventoryValid(scan[p].paths) \in BOOLEAN /\ Recorded \in BOOLEAN
      BY DEF InventoryValid, Recorded
   <2>2. Scan("write", scan[p].generation, scan[p].paths,
              InventoryValid(scan[p].paths), Recorded) \in Scans
      BY <1>0, <1>w, <2>1
   <2> QED BY <1>3, <2>2 DEF ScanRecords, TypeOK
<1>4. CASE SetPoolStatus(p)
   <2>1. [generation |-> generation, valid |-> scan[p].valid,
          present |-> scan[p].present] \in Statuses
      BY <1>0 DEF TypeOK, Scans, Statuses
   <2> QED BY <1>4, <1>0, <2>1 DEF SetPoolStatus, TypeOK
<1>5. CASE PodLife(p)
   BY <1>5 DEF PodLife, StartPod, Advertise, RemovePod, TypeOK, PodStates
<1>6. CASE RestartContainer(p)
   BY <1>6, <1>0
      DEF RestartContainer, TypeOK, PodStates, Fault, Leave, Goto, Unlock
<1>7. CASE DeletePod(p) BY <1>7 DEF DeletePod, TypeOK, PodStates, Fault
<1> QED BY <1>1, <1>2, <1>3, <1>4, <1>5, <1>6, <1>7 DEF Scanner

Environment ==
    \/ DeleteParent \/ CollectRecord \/ RevokeAuthority \/ RestoreAuthority
    \/ ReplacePath \/ UpdatePoolSpec

LEMMA EnvironmentType == ASSUME TypeOK, Environment PROVE TypeOK'
<1> USE DEF disk, node, pool
<1>1. CASE DeleteParent
   <2>1. "Gone" \in Phases BY DEF Phases
   <2> QED BY <1>1, <2>1, JournalType, Zenon DEF DeleteParent, TypeOK
<1>2. CASE CollectRecord BY <1>2, Zenon DEF CollectRecord, TypeOK
<1>3. CASE RevokeAuthority
   <2>0. Fault /\ authority' = FALSE BY <1>3 DEF RevokeAuthority
   <2>1. faults' \in Nat BY <2>0 DEF TypeOK, Fault
   <2>2. UNCHANGED <<journal, pods, pc, lock, home, retired, intent, receipt,
                     metadata, generation, status, scan, ctl>>
      BY <1>3 DEF RevokeAuthority
   <2> QED BY <2>0, <2>1, <2>2, Zenon DEF TypeOK
<1>4. CASE RestoreAuthority BY <1>4 DEF RestoreAuthority, TypeOK
<1>5. CASE ReplacePath BY <1>5 DEF ReplacePath, TypeOK, Fault
<1>6. CASE UpdatePoolSpec BY <1>6 DEF UpdatePoolSpec, TypeOK, Fault
<1> QED BY <1>1, <1>2, <1>3, <1>4, <1>5, <1>6 DEF Environment

LEMMA NextCases ==
    ASSUME Next
    PROVE  \/ \E c \in Controllers : Controller(c) \/ ControllerStops(c)
           \/ \E p \in Pods : Worker(p) \/ WorkerFails(p)
           \/ \E p \in Pods :
                 Scanner(p) \/ PodLife(p) \/ RestartContainer(p) \/ DeletePod(p)
           \/ Environment
BY DEF Next, Environment

LEMMA NextType == TypeOK /\ [Next]_vars => TypeOK'
<1> SUFFICES ASSUME TypeOK, [Next]_vars PROVE TypeOK' OBVIOUS
<1>1. CASE Next
   BY <1>1, NextCases, ControllerType, NodeType, PodType, EnvironmentType
<1>2. CASE UNCHANGED vars
   BY <1>2 DEF vars, TypeOK
<1> QED BY <1>1, <1>2

(* Every variable keeps its type, whatever the number of Pods and threads.  *)
THEOREM TypeCorrect == Spec => []TypeOK
BY InitType, NextType, PTL DEF Spec

-----------------------------------------------------------------------------
(* What a controller's write can do to the journal: UpdateStatus accepts it *)
(* only as the next link of the chain, so phases never return, the receipt  *)
(* stands, and a fence appears only as the generation just requested.       *)
LEMMA ControllerJournal ==
    ASSUME IInv, NEW c \in Controllers, Controller(c) \/ ControllerStops(c)
    PROVE  /\ journal.phase \in {"Running", "NeedsReview", "Gone"} =>
                  journal'.phase = journal.phase
           /\ journal'.phase \in {"NeedsReview", "Gone"} =>
                  journal'.phase = journal.phase
           /\ journal'.receipt = journal.receipt
           /\ journal.required > 0 => journal'.required = journal.required
           /\ journal'.required > 0 /\ journal.required = 0 =>
                  /\ ctl[c].step = "fence"
                  /\ journal'.required = ctl[c].generation
           /\ JournalInv'
<1> USE DEF IInv, JournalInv
<1>0. /\ journal \in Journals /\ Snap(c) \in Journals
      /\ ctl[c].generation \in Nat
      /\ Snap(c).receipt # NoPod => journal.receipt # NoPod
      /\ Snap(c).required > 0 => Snap(c).required = journal.required
      /\ ctl[c].step = "fence" => Snap(c).receipt # NoPod /\ ctl[c].generation > 0
   BY DEF TypeOK, Works, Snap, SnapshotInv
<1>1. CASE journal' = journal BY <1>1
<1>2. CASE Ensure(c)
   BY <1>2, <1>0 DEF Ensure, Empty, Journals
<1>3. CASE BindCleanup(c)
   BY <1>3, <1>0
      DEF BindCleanup, UpdateStatus, ValidTransition, PhaseEdge, Allowed,
          ReceiptRule, FenceRule, Journals, Working
<1>4. CASE RecordFence(c)
   BY <1>4, <1>0
      DEF RecordFence, UpdateStatus, ValidTransition, PhaseEdge, Allowed,
          ReceiptRule, FenceRule, ConfirmationRule, ValidPurgedReceipt,
          Journals, Working
<1>5. CASE SettleAbsence(c)
   BY <1>5, <1>0
      DEF SettleAbsence, UpdateStatus, ValidTransition, PhaseEdge, Allowed,
          ReceiptRule, FenceRule, ConfirmationRule, ValidPurgedReceipt,
          Journals, Working
<1> QED
   BY <1>1, <1>2, <1>3, <1>4, <1>5, Zenon
      DEF Controller, ControllerStops, ReadJournal, FindExecutor,
          RequestPoolScan, ReadScan

LEMMA ControllerStep ==
    ASSUME IInv, NEW c \in Controllers, Controller(c) \/ ControllerStops(c)
    PROVE  IInv'
<1>t. TypeOK' BY ControllerType DEF IInv
<1>j. /\ journal.phase \in {"Running", "NeedsReview", "Gone"} =>
            journal'.phase = journal.phase
      /\ journal'.phase \in {"NeedsReview", "Gone"} =>
            journal'.phase = journal.phase
      /\ journal'.receipt = journal.receipt
      /\ journal.required > 0 => journal'.required = journal.required
      /\ journal'.required > 0 /\ journal.required = 0 =>
            ctl[c].step = "fence" /\ journal'.required = ctl[c].generation
      /\ JournalInv'
   BY ControllerJournal
<1>u. UNCHANGED <<pc, lock, home, retired, intent, receipt, metadata, status, scan>>
   BY DEF Controller, ControllerStops, Ensure, ReadJournal, FindExecutor,
          BindCleanup, RequestPoolScan, RecordFence, ReadScan, SettleAbsence,
          disk, node, pool
<1>1. LockInv' BY <1>u DEF IInv, LockInv
<1>2. EffectInv' BY <1>u, <1>j DEF IInv, EffectInv, TargetOnDisk
<1>3. DiskInv' BY <1>u, <1>j DEF IInv, DiskInv, TargetOnDisk
<1>4. ReceiptIsEvidence'
   BY <1>u, <1>j DEF IInv, ReceiptIsEvidence, TargetOnDisk
<1>c. /\ \A d \in Controllers \ {c} : ctl'[d] = ctl[d]
      /\ \/ ctl'[c] = ctl[c] \/ ctl'[c] = NoWork
         \/ ctl'[c] = Work("read", journal, NoPod, 0) /\ journal' = journal
         \/ \E p \in Pods : ctl'[c] = Work("bind", Snap(c), p, 0)
         \/ ctl'[c] = Work("settle", Snap(c), NoPod, status.generation)
         \/ /\ ctl'[c] = Work("fence", Snap(c), NoPod, generation')
            /\ RequestPoolScan(c)
   BY DEF Controller, ControllerStops, Ensure, ReadJournal, FindExecutor,
          BindCleanup, RequestPoolScan, RecordFence, ReadScan, SettleAbsence,
          Done, IInv, TypeOK
<1>0. /\ journal \in Journals /\ Snap(c) \in Journals
      /\ generation \in Nat /\ status \in Statuses
      /\ Snap(c).receipt # NoPod => journal.receipt # NoPod
      /\ Snap(c).required > 0 => Snap(c).required = journal.required
   BY DEF IInv, TypeOK, Works, Snap, SnapshotInv
<1>g. /\ generation' >= generation
      /\ RequestPoolScan(c) => /\ generation' = generation + 1
                               /\ Snap(c).receipt # NoPod
   <2>1. \/ UNCHANGED generation
         \/ RequestPoolScan(c)
      BY DEF Controller, ControllerStops, Ensure, ReadJournal, FindExecutor,
             BindCleanup, RecordFence, ReadScan, SettleAbsence, pool
   <2> QED BY <2>1, <1>0 DEF RequestPoolScan, ValidPurgedReceipt
<1>5. SnapshotInv'
   <2> SUFFICES ASSUME NEW d \in Controllers
                PROVE  /\ ctl'[d].snap.receipt # NoPod => journal'.receipt # NoPod
                       /\ ctl'[d].snap.required > 0 =>
                             ctl'[d].snap.required = journal'.required
                       /\ ctl'[d].step = "bind" => ctl'[d].executor # NoPod
                       /\ ctl'[d].step = "fence" =>
                             ctl'[d].snap.receipt # NoPod /\ ctl'[d].generation > 0
      BY DEF SnapshotInv
   <2>1. CASE ctl'[d] = ctl[d]
      BY <2>1, <1>j DEF IInv, SnapshotInv, TypeOK, Works, Journals
   <2>2. CASE d = c /\ ctl'[d] # ctl[d]
      <3>0. /\ Snap(c).receipt # NoPod => journal'.receipt # NoPod
            /\ Snap(c).required > 0 => Snap(c).required = journal'.required
         BY <1>0, <1>j
      <3>1. CASE ctl'[c] = NoWork
         BY <3>1, <2>2 DEF NoWork, Work, Empty
      <3>2. CASE ctl'[c] = Work("read", journal, NoPod, 0) /\ journal' = journal
         BY <3>2, <2>2 DEF Work
      <3>3. CASE \E p \in Pods : ctl'[c] = Work("bind", Snap(c), p, 0)
         BY <3>3, <2>2, <3>0, PodsAssumption DEF Work
      <3>4. CASE ctl'[c] = Work("settle", Snap(c), NoPod, status.generation)
         BY <3>4, <2>2, <3>0 DEF Work
      <3>5. CASE /\ ctl'[c] = Work("fence", Snap(c), NoPod, generation')
                 /\ RequestPoolScan(c)
         BY <3>5, <2>2, <3>0, <1>g, <1>0 DEF Work
      <3> QED BY <2>2, <1>c, <3>1, <3>2, <3>3, <3>4, <3>5
   <2> QED BY <2>1, <2>2, <1>c
<1>6. FenceInv'
   <2>0. /\ status.generation \in Nat /\ status.generation <= generation
         /\ \A p \in Pods : scan[p].generation \in Nat /\ scan[p].generation <= generation
         /\ generation' \in Nat
         /\ \A d \in Controllers : ctl[d].generation \in Nat
         /\ journal.required \in Nat /\ journal'.required \in Nat
      BY <1>t DEF IInv, FenceInv, TypeOK, Statuses, Scans, Works, Journals
   <2> DEFINE PastNext(g) ==
                /\ g <= generation'
                /\ status'.generation >= g => ~status'.present
                /\ \A p \in Pods : scan'[p].generation >= g => ~scan'[p].present
   <2>1. \A g \in Nat : FencePast(g) => PastNext(g)
      BY <2>0, <1>u, <1>g, <1>0 DEF FencePast
   <2>2. RequestPoolScan(c) => PastNext(generation')
      BY <2>0, <1>u, <1>g, <1>0
   <2> HIDE DEF PastNext
   <2>3. ASSUME journal'.required > 0 PROVE PastNext(journal'.required)
      <3>1. CASE journal.required > 0
         BY <3>1, <2>0, <2>1, <1>j DEF IInv, FenceInv
      <3>2. CASE journal.required = 0
         BY <3>2, <2>3, <2>0, <2>1, <1>j DEF IInv, FenceInv
      <3> QED BY <3>1, <3>2, <2>0
   <2>4. ASSUME NEW d \in Controllers, ctl'[d].step = "fence"
         PROVE  PastNext(ctl'[d].generation)
      <3>1. CASE ctl'[d] = ctl[d]
         BY <3>1, <2>4, <2>0, <2>1 DEF IInv, FenceInv
      <3>2. CASE d = c /\ ctl'[d] # ctl[d]
         <4>1. /\ ctl'[c] = Work("fence", Snap(c), NoPod, generation')
               /\ RequestPoolScan(c)
            <5>1. \A s, e, g : /\ Work("read", s, e, g).step # "fence"
                               /\ Work("bind", s, e, g).step # "fence"
                               /\ Work("settle", s, e, g).step # "fence"
               BY DEF Work
            <5>2. NoWork.step # "fence" BY DEF NoWork, Work
            <5>3. ctl'[c].step = "fence" BY <3>2, <2>4
            <5> QED BY <5>1, <5>2, <5>3, <3>2, <1>c
         <4> QED BY <4>1, <3>2, <2>2 DEF Work
      <3> QED BY <3>1, <3>2, <1>c
   <2> USE DEF PastNext
   <2>5. /\ status'.generation <= generation'
         /\ \A p \in Pods : scan'[p].generation <= generation'
      BY <2>0, <1>u, <1>g, <1>0
   <2> QED BY <2>3, <2>4, <2>5 DEF FenceInv, FencePast
<1> QED BY <1>t, <1>j, <1>1, <1>2, <1>3, <1>4, <1>5, <1>6 DEF IInv

-----------------------------------------------------------------------------
(* What a worker's report can do to the journal.                            *)
LEMMA WorkerJournal ==
    ASSUME IInv, NEW p \in Pods, Worker(p) \/ WorkerFails(p)
    PROVE  /\ UNCHANGED <<status, scan, generation, ctl>>
           /\ journal'.required = journal.required
           /\ journal.receipt # NoPod => journal'.receipt = journal.receipt
           /\ JournalInv'
<1>1. UNCHANGED <<status, scan, generation, ctl>>
   BY DEF Worker, WorkerFails, Approve, Acquire, ReplayReceipt, PrepareIntent,
          Recheck, Retire, Purge, PersistReceipt, SettleReclaim, Report,
          ReportReview, pool
<1>2. /\ journal \in Journals /\ JournalInv BY DEF IInv, TypeOK
<1>3. CASE Report(p)
   BY <1>1, <1>2, <1>3, PodsAssumption
      DEF Report, UpdateStatus, ValidTransition, PhaseEdge, Allowed, FenceRule,
          ReceiptRule, Empty, Journals, JournalInv
<1>4. CASE ReportReview(p)
   BY <1>1, <1>2, <1>4
      DEF ReportReview, UpdateStatus, ValidTransition, PhaseEdge, Allowed,
          FenceRule, ReceiptRule, Empty, Journals, JournalInv
<1>5. CASE UNCHANGED journal
   BY <1>1, <1>2, <1>5 DEF JournalInv
<1> QED
   BY <1>1, <1>3, <1>4, <1>5
      DEF Worker, WorkerFails, Approve, Acquire, ReplayReceipt, PrepareIntent,
          Recheck, Retire, Purge, PersistReceipt, SettleReclaim

(* The part of the invariant that is about the disk and the workers.        *)
LocalInv == LockInv /\ EffectInv /\ DiskInv /\ ReceiptIsEvidence

(* Only one worker is past Acquire.                                         *)
LEMMA OneHolder ==
    ASSUME IInv, NEW p \in Pods, NEW q \in Pods,
           pc[p] \in HeldSteps, pc[q] \in HeldSteps
    PROVE  p = q
BY DEF IInv, LockInv

LEMMA QuietSteps ==
    ASSUME IInv, NEW p \in Pods, Approve(p) \/ Acquire(p) \/ Recheck(p) \/ WorkerFails(p)
    PROVE  LocalInv'
<1> USE DEF IInv, LocalInv
<1>1. UNCHANGED <<journal, disk>> BY DEF Approve, Acquire, Recheck, WorkerFails
<1>2. LockInv'
   BY PodsAssumption
      DEF Approve, Acquire, Recheck, WorkerFails, Goto, Leave, Unlock, TypeOK,
          LockInv, HeldSteps, At
<1>3. \A q \in Pods : \/ pc'[q] = pc[q]
                      \/ pc'[q] \in {"idle", "approved", "locked"}
                      \/ pc[q] = "checked" /\ pc'[q] = "cleared"
   BY DEF Approve, Acquire, Recheck, WorkerFails, Goto, Leave, At, TypeOK
<1>4. EffectInv'
   BY <1>1, <1>3 DEF EffectInv, EffectSteps, TargetOnDisk, disk
<1> QED BY <1>1, <1>2, <1>4 DEF DiskInv, ReceiptIsEvidence, TargetOnDisk, disk

LEMMA FinishStep ==
    ASSUME IInv, NEW p \in Pods, ReplayReceipt(p) \/ SettleReclaim(p)
    PROVE  LocalInv'
<1> USE DEF IInv, LocalInv
<1>1. /\ UNCHANGED <<journal, home, retired, intent, receipt>>
      /\ pc[p] \in {"locked", "receipted"} /\ receipt
   BY DEF ReplayReceipt, SettleReclaim, At, EffectInv
<1>2. \/ home = "none" /\ ~metadata' /\ Leave(p, "report")
      \/ home # "none" /\ metadata' = metadata /\ Leave(p, "review")
      \/ metadata' = metadata /\ Leave(p, "idle")
   BY DEF ReplayReceipt, SettleReclaim, FinishMetadata
<1>3. LockInv'
   BY <1>2 DEF Leave, Goto, Unlock, TypeOK, LockInv, HeldSteps
<1>4. home # "target" /\ ~retired BY <1>1 DEF DiskInv, TargetOnDisk
<1>5. metadata' => metadata BY <1>2, Zenon DEF TypeOK
<1>6. /\ \A q \in Pods \ {p} : pc'[q] = pc[q]
      /\ \/ pc'[p] = "report" /\ home = "none" /\ ~metadata'
         \/ pc'[p] = "review" /\ home = "other"
         \/ pc'[p] = "idle"
   BY <1>2, <1>4 DEF Leave, Goto, TypeOK
<1>7. \A q \in Pods : pc[q] \notin EffectSteps BY <1>1 DEF EffectInv
<1>8. EffectInv'
   BY <1>1, <1>4, <1>5, <1>6, <1>7 DEF EffectInv, EffectSteps, TargetOnDisk
<1>9. DiskInv'
   BY <1>1, <1>4 DEF DiskInv, TargetOnDisk
<1>10. ReceiptIsEvidence'
   BY <1>1, <1>5 DEF ReceiptIsEvidence, TargetOnDisk
<1> QED BY <1>3, <1>8, <1>9, <1>10

LEMMA PrepareStep ==
    ASSUME IInv, NEW p \in Pods, PrepareIntent(p)
    PROVE  LocalInv'
<1> USE DEF IInv, LocalInv
<1>1. /\ UNCHANGED <<journal, home, retired, receipt, metadata>>
      /\ pc[p] = "locked" /\ ~receipt
      /\ intent => intent'
   BY DEF PrepareIntent, At, TypeOK
<1>2. \/ home = "other" /\ Leave(p, "review")
      \/ Leave(p, "idle")
      \/ intent' /\ journal.phase = "Running" /\ Goto(p, "checked") /\ lock' = lock
   BY DEF PrepareIntent, EffectStarted, Authority, DiskInv, TypeOK
<1>3. LockInv'
   BY <1>1, <1>2 DEF Leave, Goto, Unlock, TypeOK, LockInv, HeldSteps
<1>4. /\ \A q \in Pods \ {p} : pc'[q] = pc[q]
      /\ \/ pc'[p] = "review" /\ home = "other"
         \/ pc'[p] = "checked" /\ intent' /\ journal.phase = "Running"
         \/ pc'[p] = "idle"
   BY <1>2 DEF Leave, Goto, TypeOK
<1>5. \A q \in Pods : pc[q] \notin {"retired", "purged", "checked", "cleared"}
   BY <1>1, OneHolder DEF HeldSteps
<1>6. EffectInv'
   BY <1>1, <1>4, <1>5 DEF EffectInv, EffectSteps, TargetOnDisk
<1>7. DiskInv' BY <1>1 DEF DiskInv, TargetOnDisk
<1>8. ReceiptIsEvidence' BY <1>1 DEF ReceiptIsEvidence, TargetOnDisk
<1> QED BY <1>3, <1>6, <1>7, <1>8

LEMMA RetireStep ==
    ASSUME IInv, NEW p \in Pods, Retire(p)
    PROVE  LocalInv'
<1> USE DEF IInv, LocalInv
<1>1. /\ UNCHANGED <<journal, intent, receipt, metadata>>
      /\ pc[p] = "cleared" /\ intent /\ ~receipt
      /\ journal.phase \in {"Running", "NeedsReview"}
   BY DEF Retire, At, EffectInv, EffectSteps
<1>2. \/ home = "other" /\ UNCHANGED <<home, retired>> /\ Leave(p, "review")
      \/ home # "other" /\ home' = "none" /\ Goto(p, "retired") /\ lock' = lock
   BY DEF Retire, DiskInv
<1>3. LockInv'
   BY <1>1, <1>2 DEF Leave, Goto, Unlock, TypeOK, LockInv, HeldSteps
<1>4. /\ \A q \in Pods \ {p} : pc'[q] = pc[q]
      /\ \/ pc'[p] = "review" /\ home = "other" /\ UNCHANGED <<home, retired>>
         \/ pc'[p] = "retired" /\ home # "other" /\ home' = "none"
   BY <1>2 DEF Leave, Goto, TypeOK
<1>5. \A q \in Pods : pc[q] \notin {"retired", "purged", "checked", "report"}
   BY <1>1, OneHolder DEF HeldSteps, EffectInv
<1>6. home # "other" => /\ journal.phase = "Running"
                        /\ \A q \in Pods : pc[q] # "review"
   BY <1>1 DEF DiskInv, EffectInv
<1>7. journal.receipt = NoPod BY <1>1 DEF JournalInv
<1>8. EffectInv'
   BY <1>1, <1>4, <1>5, <1>6 DEF EffectInv, EffectSteps, TargetOnDisk
<1>9. DiskInv' BY <1>1, <1>4, <1>6 DEF DiskInv, TargetOnDisk
<1>10. ReceiptIsEvidence' BY <1>1, <1>7 DEF ReceiptIsEvidence
<1> QED BY <1>3, <1>8, <1>9, <1>10

LEMMA PurgeStep ==
    ASSUME IInv, NEW p \in Pods, Purge(p) \/ PersistReceipt(p)
    PROVE  LocalInv'
<1> USE DEF IInv, LocalInv
<1>1. /\ UNCHANGED <<journal, lock, home, intent, metadata>>
      /\ pc[p] \in {"retired", "purged"}
      /\ intent /\ ~receipt /\ home # "target"
      /\ journal.phase = "Running"
   BY DEF Purge, PersistReceipt, At, EffectInv, EffectSteps
<1>2. \/ ~retired' /\ receipt' = receipt /\ Goto(p, "purged")
      \/ ~retired /\ retired' = retired /\ receipt' /\ Goto(p, "receipted")
   BY DEF Purge, PersistReceipt, EffectInv, At
<1>3. LockInv' BY <1>1, <1>2 DEF Goto, TypeOK, LockInv, HeldSteps
<1>4. /\ \A q \in Pods \ {p} : pc'[q] = pc[q]
      /\ \/ pc'[p] = "purged" /\ ~retired' /\ receipt' = receipt
         \/ pc'[p] = "receipted" /\ ~retired /\ retired' = retired /\ receipt'
   BY <1>2 DEF Goto, TypeOK
<1>5. \A q \in Pods \ {p} : pc[q] \notin EffectSteps \cup {"receipted"}
   BY <1>1, OneHolder DEF HeldSteps, EffectSteps
<1>6. \A q \in Pods : pc[q] # "review" BY <1>1 DEF EffectInv
<1>7. journal.receipt = NoPod BY <1>1 DEF JournalInv
<1>8. ~retired'  BY <1>4
<1>9. EffectInv'
   BY <1>1, <1>4, <1>5, <1>6, <1>8 DEF EffectInv, EffectSteps, TargetOnDisk
<1>10. DiskInv' BY <1>1, <1>8 DEF DiskInv, TargetOnDisk
<1>11. ReceiptIsEvidence' BY <1>1, <1>7 DEF ReceiptIsEvidence
<1> QED BY <1>3, <1>9, <1>10, <1>11

LEMMA ReportStep ==
    ASSUME IInv, NEW p \in Pods, Report(p) \/ ReportReview(p)
    PROVE  LocalInv'
<1> USE DEF IInv, LocalInv
<1>1. /\ UNCHANGED <<lock, disk>> /\ Goto(p, "idle")
      /\ \/ journal' = journal
         \/ /\ pc[p] = "report" /\ journal.phase \in {"Running", "Verifying"}
            /\ journal'.phase = "Verifying"
         \/ /\ pc[p] = "review"
            /\ journal'.phase = "NeedsReview" /\ journal'.receipt = NoPod
            /\ journal.phase # "Gone"
   BY Zenon DEF Report, ReportReview, At, UpdateStatus, ValidTransition, PhaseEdge,
          Allowed, Empty
<1>2. \A q \in Pods : pc'[q] = pc[q] \/ pc'[q] = "idle"
   BY <1>1 DEF Goto, TypeOK
<1>3. LockInv' BY <1>1, <1>2 DEF LockInv, HeldSteps
<1>4. CASE journal' = journal
   <2>1. EffectInv'
      BY <1>1, <1>2, <1>4 DEF EffectInv, EffectSteps, TargetOnDisk, disk
   <2> QED BY <1>1, <1>3, <1>4, <2>1 DEF DiskInv, ReceiptIsEvidence, TargetOnDisk, disk
<1>5. CASE /\ pc[p] = "report" /\ journal.phase \in {"Running", "Verifying"}
           /\ journal'.phase = "Verifying"
   <2>1. receipt /\ ~TargetOnDisk /\ ~metadata BY <1>5 DEF EffectInv
   <2>2. EffectInv'
      BY <1>1, <1>2, <1>5, <2>1 DEF EffectInv, EffectSteps, TargetOnDisk, disk
   <2>3. DiskInv' BY <1>1, <1>5, <2>1 DEF DiskInv, TargetOnDisk, disk
   <2> QED BY <1>1, <1>3, <2>1, <2>2, <2>3 DEF ReceiptIsEvidence, TargetOnDisk, disk
<1>6. CASE /\ pc[p] = "review"
           /\ journal'.phase = "NeedsReview" /\ journal'.receipt = NoPod
           /\ journal.phase # "Gone"
   <2>1. home = "other" /\ \A q \in Pods : pc[q] \notin {"retired", "purged"}
      BY <1>6 DEF EffectInv
   <2>2. EffectInv'
      BY <1>1, <1>2, <1>6, <2>1 DEF EffectInv, EffectSteps, TargetOnDisk, disk
   <2>3. DiskInv' BY <1>1, <1>6, <2>1 DEF DiskInv, TargetOnDisk, disk
   <2> QED BY <1>3, <1>6, <2>2, <2>3 DEF ReceiptIsEvidence
<1> QED BY <1>1, <1>4, <1>5, <1>6

LEMMA NodeStep ==
    ASSUME IInv, NEW p \in Pods, Worker(p) \/ WorkerFails(p)
    PROVE  IInv'
<1>1. TypeOK' BY NodeType DEF IInv
<1>2. LocalInv'
   BY QuietSteps, FinishStep, PrepareStep, RetireStep, PurgeStep, ReportStep
      DEF Worker
<1>3. /\ UNCHANGED <<status, scan, generation, ctl>>
      /\ journal'.required = journal.required
      /\ journal.receipt # NoPod => journal'.receipt = journal.receipt
      /\ JournalInv'
   BY WorkerJournal
<1>4. SnapshotInv' BY <1>3 DEF IInv, SnapshotInv
<1>5. FenceInv' BY <1>3 DEF IInv, FenceInv, FencePast
<1> QED BY <1>1, <1>2, <1>3, <1>4, <1>5 DEF IInv, LocalInv

-----------------------------------------------------------------------------
(* While a fence is open or recorded the markers are gone, so a scan that   *)
(* reads the records now cannot report the copy present.                    *)
LEMMA ScanFence ==
    ASSUME IInv, NEW p \in Pods, NEW g \in Nat, FencePast(g), ~Recorded,
           Scanner(p) \/ RestartContainer(p)
    PROVE  FencePast(g)'
<1>0. /\ scan \in [Pods -> Scans] /\ generation' = generation /\ generation \in Nat
      /\ scan[p].generation \in Nat /\ status.generation \in Nat
   BY Zenon DEF IInv, TypeOK, Scans, Statuses, Scanner, StartScan, ScanPhysical,
          ScanRecords, SetPoolStatus, RestartContainer, pool
<1> USE DEF FencePast
<1>1. CASE StartScan(p)
   BY <1>0, <1>1 DEF StartScan, Scan, pool
<1>2. CASE ScanPhysical(p)
   BY <1>0, <1>2 DEF ScanPhysical, Scan, pool
<1>3. CASE ScanRecords(p)
   <2>1. Scan("write", scan[p].generation, scan[p].paths,
              InventoryValid(scan[p].paths), Recorded).present = Recorded
      BY DEF Scan
   <2> QED BY <1>0, <1>3, <2>1 DEF ScanRecords, Scan, pool
<1>4. CASE SetPoolStatus(p)
   <2>1. \A q \in Pods : scan'[q] = scan[q] \/ scan'[q] = NoScan
      BY <1>0, <1>4 DEF SetPoolStatus
   <2>2. \/ status' = status
         \/ /\ status'.generation = scan[p].generation
            /\ status'.present = scan[p].present
      BY <1>4 DEF SetPoolStatus
   <2> QED BY <1>0, <2>1, <2>2 DEF NoScan, Scan
<1>5. CASE RestartContainer(p)
   BY <1>0, <1>5 DEF RestartContainer, NoScan, Scan, pool
<1> QED BY <1>1, <1>2, <1>3, <1>4, <1>5 DEF Scanner

LEMMA PodStep ==
    ASSUME IInv, NEW p \in Pods,
           Scanner(p) \/ PodLife(p) \/ RestartContainer(p) \/ DeletePod(p)
    PROVE  IInv'
<1>t. TypeOK' BY PodType DEF IInv
<1>u. /\ UNCHANGED <<journal, disk, generation, ctl>>
      /\ UNCHANGED node \/ Leave(p, "idle")
   BY Zenon DEF Scanner, StartScan, ScanPhysical, ScanRecords, SetPoolStatus, PodLife,
          StartPod, Advertise, RemovePod, RestartContainer, DeletePod, pool
<1>1. \A q \in Pods : pc'[q] = pc[q] \/ pc'[q] = "idle"
   BY <1>u DEF Leave, Goto, node, IInv, TypeOK
<1>2. LockInv'
   BY <1>u, <1>t DEF IInv, TypeOK, Leave, Goto, Unlock, node, LockInv, HeldSteps
<1>3. EffectInv'
   BY <1>u, <1>1 DEF IInv, EffectInv, EffectSteps, TargetOnDisk, disk
<1>4. DiskInv' /\ JournalInv' /\ SnapshotInv' /\ ReceiptIsEvidence'
   BY <1>u DEF IInv, DiskInv, JournalInv, SnapshotInv, ReceiptIsEvidence,
               TargetOnDisk, disk
<1>5. /\ \A c \in Controllers : ctl[c].generation \in Nat
      /\ journal.required \in Nat
   BY DEF IInv, TypeOK, Works, Journals
<1>6. CASE UNCHANGED <<scan, status>>
   BY <1>u, <1>6, <1>t, <1>2, <1>3, <1>4 DEF IInv, FenceInv, FencePast
<1>7. CASE Scanner(p) \/ RestartContainer(p)
   <2>0. /\ scan \in [Pods -> Scans] /\ generation \in Nat /\ scan[p] \in Scans
      BY DEF IInv, TypeOK
   <2>1. /\ status'.generation <= generation'
         /\ \A q \in Pods : scan'[q].generation <= generation'
      <3>1. \A q \in Pods : \/ scan'[q].generation = scan[q].generation
                            \/ scan'[q].generation = 0
                            \/ scan'[q].generation = generation
         <4>1. CASE StartScan(p)
            BY <4>1, <2>0 DEF StartScan, Scan
         <4>2. CASE ScanPhysical(p)
            BY <4>2, <2>0 DEF ScanPhysical, Scan
         <4>3. CASE ScanRecords(p)
            BY <4>3, <2>0 DEF ScanRecords, Scan
         <4>4. CASE SetPoolStatus(p)
            BY <4>4, <2>0 DEF SetPoolStatus, NoScan, Scan
         <4>5. CASE RestartContainer(p)
            BY <4>5, <2>0 DEF RestartContainer, NoScan, Scan
         <4> QED  BY <1>7, <4>1, <4>2, <4>3, <4>4, <4>5, Zenon DEF Scanner
      <3>2. status'.generation = status.generation \/ status'.generation = generation
         <4>1. CASE SetPoolStatus(p) BY <4>1, Zenon DEF SetPoolStatus
         <4>2. CASE status' = status BY <4>2
         <4> QED
            BY <1>7, <4>1, <4>2, ZenonT(30)
               DEF Scanner, StartScan, ScanPhysical, ScanRecords,
                   RestartContainer, pool
      <3>3. /\ status.generation <= generation /\ generation' = generation
            /\ \A q \in Pods : scan[q].generation <= generation
         BY <1>u, Zenon DEF IInv, FenceInv
      <3>4. status'.generation <= generation'
         BY <3>2, <3>3, <2>0
      <3>5. ASSUME NEW q \in Pods  PROVE  scan'[q].generation <= generation'
         BY <3>1, <3>3, <2>0
      <3> QED  BY <3>4, <3>5, Zenon
   <2>2. journal.receipt # NoPod => ~Recorded
      BY DEF IInv, ReceiptIsEvidence, TargetOnDisk, Recorded
   <2>3. journal.required > 0 => FencePast(journal.required)'
      BY <1>5, <1>7, <2>2, <1>u, ScanFence DEF IInv, FenceInv, JournalInv
   <2>4. ASSUME NEW c \in Controllers, ctl[c].step = "fence"
         PROVE  FencePast(ctl[c].generation)'
      BY <1>5, <1>7, <2>2, <2>4, <1>u, ScanFence DEF IInv, FenceInv, SnapshotInv
   <2>5. FenceInv' BY <2>1, <2>3, <2>4, <1>u DEF FenceInv
   <2> QED BY <1>t, <1>2, <1>3, <1>4, <2>5 DEF IInv
<1> QED
   BY <1>6, <1>7 DEF PodLife, StartPod, Advertise, RemovePod, DeletePod, pool

LEMMA EnvironmentStep == ASSUME IInv, Environment PROVE IInv'
<1>t. TypeOK' BY EnvironmentType DEF IInv
<1> USE DEF IInv, disk, node, pool
<1>1. CASE DeleteParent
   <2>1. /\ UNCHANGED <<pc, lock, disk, scan, ctl, generation, status>>
         /\ journal.phase = "Completed" /\ journal'.phase = "Gone"
         /\ journal'.receipt = journal.receipt
         /\ journal'.required = journal.required
      BY <1>1 DEF DeleteParent, TypeOK, Journals
   <2>2. LockInv' BY <2>1 DEF LockInv
   <2>3. EffectInv' BY <2>1 DEF EffectInv, TargetOnDisk
   <2>4. DiskInv' /\ JournalInv' BY <2>1 DEF DiskInv, JournalInv, TargetOnDisk
   <2>5. ReceiptIsEvidence' BY <2>1 DEF ReceiptIsEvidence, TargetOnDisk
   <2>6. SnapshotInv' BY <2>1 DEF SnapshotInv
   <2>7. FenceInv' BY <2>1 DEF FenceInv, FencePast
   <2> QED BY <1>t, <2>2, <2>3, <2>4, <2>5, <2>6, <2>7
<1>2. CASE CollectRecord
   <2>1. /\ UNCHANGED <<journal, pc, lock, home, retired, metadata, scan, ctl,
                        generation, status>>
         /\ journal.phase = "Gone" /\ lock = NoPod /\ ~TargetOnDisk
         /\ receipt' => receipt
      BY <1>2 DEF CollectRecord, TargetOnDisk, TypeOK
   <2>2. LockInv' BY <2>1 DEF LockInv
   <2>3. \A p \in Pods : pc[p] \notin EffectSteps \cup {"receipted"}
      BY <2>1, PodsAssumption DEF LockInv, HeldSteps, EffectSteps
   <2>4. EffectInv' BY <2>1, <2>3 DEF EffectInv, EffectSteps, TargetOnDisk
   <2>5. DiskInv' BY <2>1 DEF DiskInv, TargetOnDisk
   <2>6. ReceiptIsEvidence' BY <2>1 DEF ReceiptIsEvidence, TargetOnDisk
   <2>7. JournalInv' /\ SnapshotInv' BY <2>1 DEF JournalInv, SnapshotInv
   <2>8. FenceInv' BY <2>1 DEF FenceInv, FencePast
   <2> QED BY <1>t, <2>2, <2>4, <2>5, <2>6, <2>7, <2>8
<1>3. CASE RevokeAuthority \/ RestoreAuthority
   <2>1. UNCHANGED <<journal, pc, lock, disk, scan, ctl, generation, status>>
      BY <1>3 DEF RevokeAuthority, RestoreAuthority
   <2>2. EffectInv' BY <2>1 DEF EffectInv, TargetOnDisk
   <2>3. /\ LockInv' /\ DiskInv' /\ JournalInv' /\ SnapshotInv' /\ ReceiptIsEvidence'
      BY <2>1 DEF LockInv, DiskInv, JournalInv, SnapshotInv, ReceiptIsEvidence,
                  TargetOnDisk
   <2>4. FenceInv' BY <2>1, Zenon DEF FenceInv, FencePast
   <2> QED BY <1>t, <2>2, <2>3, <2>4
<1>4. CASE ReplacePath
   <2>1. /\ UNCHANGED <<journal, pc, lock, retired, intent, receipt, metadata,
                        scan, ctl, generation, status>>
         /\ home' = "other"
      BY <1>4 DEF ReplacePath
   <2>2. EffectInv' BY <2>1 DEF EffectInv, TargetOnDisk
   <2>3. /\ LockInv' /\ DiskInv' /\ JournalInv' /\ SnapshotInv' /\ ReceiptIsEvidence'
      BY <2>1 DEF LockInv, DiskInv, JournalInv, SnapshotInv, ReceiptIsEvidence,
                  TargetOnDisk
   <2>4. FenceInv' BY <2>1, Zenon DEF FenceInv, FencePast
   <2> QED BY <1>t, <2>2, <2>3, <2>4
<1>5. CASE UpdatePoolSpec
   <2>1. /\ UNCHANGED <<journal, pc, lock, disk, scan, ctl, status>>
         /\ generation' = generation + 1
      BY <1>5 DEF UpdatePoolSpec
   <2>2. EffectInv' BY <2>1 DEF EffectInv, TargetOnDisk
   <2>3. /\ LockInv' /\ DiskInv' /\ JournalInv' /\ SnapshotInv' /\ ReceiptIsEvidence'
      BY <2>1 DEF LockInv, DiskInv, JournalInv, SnapshotInv, ReceiptIsEvidence,
                  TargetOnDisk
   <2>4. /\ generation \in Nat /\ status.generation \in Nat /\ journal.required \in Nat
         /\ \A p \in Pods : scan[p].generation \in Nat
         /\ \A c \in Controllers : ctl[c].generation \in Nat
      BY DEF TypeOK, Statuses, Journals, Scans, Works
   <2>5. ASSUME NEW g \in Nat, FencePast(g) PROVE FencePast(g)'
      <3>a. g <= generation BY <2>5 DEF FencePast
      <3>b. generation' = generation + 1 BY <2>1
      <3>c. generation \in Nat BY <2>4
      <3>1. g <= generation' BY <3>a, <3>b, <3>c
      <3>2. status'.generation >= g => ~status'.present BY <2>1, <2>5 DEF FencePast
      <3>3. \A p \in Pods : scan'[p].generation >= g => ~scan'[p].present
         BY <2>1, <2>5 DEF FencePast
      <3> QED BY <3>1, <3>2, <3>3 DEF FencePast
   <2>6. /\ status'.generation <= generation'
         /\ \A p \in Pods : scan'[p].generation <= generation'
      BY <2>1, <2>4 DEF FenceInv
   <2>7. journal'.required > 0 => FencePast(journal.required)'
      BY <2>1, <2>4, <2>5 DEF FenceInv
   <2>8. \A c \in Controllers : ctl'[c].step = "fence" => FencePast(ctl[c].generation)'
      BY <2>1, <2>4, <2>5 DEF FenceInv
   <2>9. FenceInv' BY <2>6, <2>7, <2>8 DEF FenceInv
   <2> QED BY <1>t, <2>2, <2>3, <2>9
<1> QED BY <1>1, <1>2, <1>3, <1>4, <1>5 DEF Environment

-----------------------------------------------------------------------------
LEMMA InitInv == Init => IInv
<1> SUFFICES ASSUME Init PROVE IInv OBVIOUS
<1>1. TypeOK BY InitType
<1>2. /\ journal.phase = "None" /\ journal.receipt = NoPod /\ journal.required = 0
      /\ \A c \in Controllers : /\ ctl[c].step = "idle"
                                /\ ctl[c].snap.receipt = NoPod
                                /\ ctl[c].snap.required = 0
      /\ \A p \in Pods : scan[p].generation = 0 /\ pc[p] = "idle"
      /\ status.generation = 0 /\ generation = 1
   BY DEF Init, Empty, NoWork, Work, NoScan, Scan
<1>3. LockInv /\ EffectInv BY <1>2 DEF LockInv, EffectInv, HeldSteps, EffectSteps
<1>4. DiskInv BY <1>2 DEF Init, DiskInv, TargetOnDisk
<1>5. JournalInv /\ SnapshotInv /\ ReceiptIsEvidence
   BY <1>2 DEF JournalInv, SnapshotInv, ReceiptIsEvidence
<1>6. FenceInv BY <1>2 DEF FenceInv
<1> QED BY <1>1, <1>3, <1>4, <1>5, <1>6 DEF IInv

LEMMA NextInv == IInv /\ [Next]_vars => IInv'
<1> SUFFICES ASSUME IInv, [Next]_vars PROVE IInv' OBVIOUS
<1>1. CASE Next
   BY <1>1, NextCases, ControllerStep, NodeStep, PodStep, EnvironmentStep
<1>2. CASE UNCHANGED vars
   <2>1. EffectInv' BY <1>2 DEF IInv, EffectInv, TargetOnDisk, vars
   <2>2. FenceInv' BY <1>2 DEF IInv, FenceInv, FencePast, vars
   <2>3. TypeOK' BY <1>2 DEF IInv, TypeOK, vars
   <2>4. /\ LockInv' /\ DiskInv' /\ JournalInv' /\ SnapshotInv' /\ ReceiptIsEvidence'
      BY <1>2, Zenon DEF IInv, LockInv, DiskInv, JournalInv, SnapshotInv,
                  ReceiptIsEvidence, TargetOnDisk, vars
   <2> QED BY <2>1, <2>2, <2>3, <2>4 DEF IInv
<1> QED BY <1>1, <1>2

LEMMA Invariant == Spec => []IInv
BY InitInv, NextInv, PTL DEF Spec

(* A receipt that UpdateStatus accepted is evidence that the copy and its   *)
(* markers are gone, for any number of Pods, threads and faults.            *)
THEOREM ReceiptsAreEvidence == Spec => []ReceiptIsEvidence
<1>1. IInv => ReceiptIsEvidence BY DEF IInv
<1> QED BY <1>1, Invariant, PTL

(* After a receipt no worker is inside the destructive effect, although the *)
(* flock and not the journal is what separates two Pods of the node.        *)
THEOREM SettledCleanupIsQuiet == Spec => []SettledIsQuiet
<1>1. IInv => SettledIsQuiet
   BY Zenon DEF IInv, JournalInv, EffectInv, SettledIsQuiet
<1> QED BY <1>1, Invariant, PTL

(* No inventory at or past the recorded fence shows the copy present.       *)
THEOREM FenceCausality == Spec => []FenceIsCausal
<1>1. IInv => FenceIsCausal
   <2> SUFFICES ASSUME IInv PROVE FenceIsCausal OBVIOUS
   <2>1. journal.required \in Nat /\ generation \in Nat
      BY DEF IInv, TypeOK, Journals
   <2> QED BY <2>1 DEF IInv, FenceInv, FencePast, FenceIsCausal
<1> QED BY <1>1, Invariant, PTL

-----------------------------------------------------------------------------
(* The only steps that move the copy: Retire, Purge, and whoever replaces   *)
(* the path.                                                                *)
LEMMA DiskCases ==
    ASSUME IInv, Next
    PROVE  \/ home' = home /\ retired' = retired
           \/ \E p \in Pods : Retire(p) \/ Purge(p)
           \/ ReplacePath
<1> USE DEF disk
<1>1. CASE \E c \in Controllers : Controller(c) \/ ControllerStops(c)
   BY <1>1 DEF Controller, ControllerStops, Ensure, ReadJournal, FindExecutor,
               BindCleanup, RequestPoolScan, RecordFence, ReadScan, SettleAbsence
<1>2. CASE \E p \in Pods : Worker(p) \/ WorkerFails(p)
   BY <1>2 DEF Worker, WorkerFails, Approve, Acquire, ReplayReceipt,
               PrepareIntent, Recheck, PersistReceipt, SettleReclaim, Report,
               ReportReview
<1>3. CASE \E p \in Pods :
               Scanner(p) \/ PodLife(p) \/ RestartContainer(p) \/ DeletePod(p)
   BY <1>3, Zenon DEF Scanner, StartScan, ScanPhysical, ScanRecords, SetPoolStatus,
               PodLife, StartPod, Advertise, RemovePod, RestartContainer, DeletePod
<1>4. CASE Environment
   BY <1>4 DEF Environment, DeleteParent, CollectRecord, RevokeAuthority,
               RestoreAuthority, UpdatePoolSpec
<1> QED BY NextCases, <1>1, <1>2, <1>3, <1>4

(* The serving path is emptied only under a durable intent of a journal     *)
(* that still waits for a result, and never of a foreign directory.         *)
THEOREM RetirementIsJournaled == Spec => RetireIsJournaled
<1> DEFINE Step == /\ home = "target" /\ home' = "none" =>
                         intent /\ journal.phase = "Running"
                   /\ home = "other" => home' = "other"
<1>1. IInv /\ [Next]_vars => [Step]_vars
   <2> SUFFICES ASSUME IInv, Next PROVE Step OBVIOUS
   <2>1. CASE \E p \in Pods : Retire(p)
      <3>1. PICK p \in Pods : Retire(p) BY <2>1
      <3>2. intent /\ journal.phase \in {"Running", "NeedsReview"}
         BY <3>1 DEF Retire, At, IInv, EffectInv, EffectSteps
      <3>3. home = "other" => home' = home BY <3>1 DEF Retire
      <3> QED BY <3>2, <3>3 DEF IInv, DiskInv
   <2>2. CASE \E p \in Pods : Purge(p) BY <2>2 DEF Purge
   <2>3. CASE ReplacePath BY <2>3 DEF ReplacePath
   <2>4. CASE home' = home BY <2>4
   <2> QED BY DiskCases, <2>1, <2>2, <2>3, <2>4
<1> QED BY <1>1, Invariant, PTL DEF Spec, RetireIsJournaled

-----------------------------------------------------------------------------
(* A step that changes the phase follows an edge of the journal, and leaves *)
(* the disk alone.                                                          *)
LEMMA PhaseCases ==
    ASSUME IInv, Next
    PROVE  \/ journal'.phase = journal.phase
           \/ /\ UNCHANGED disk
              /\ journal.receipt # NoPod => journal'.receipt = journal.receipt
              /\ \/ journal'.phase \in Allowed(journal.phase)
                 \/ journal.phase = "None" /\ journal'.phase = "Pending"
                 \/ journal.phase = "Completed" /\ journal'.phase = "Gone"
<1> DEFINE Edge == \/ journal'.phase \in Allowed(journal.phase)
                   \/ journal.phase = "None" /\ journal'.phase = "Pending"
                   \/ journal.phase = "Completed" /\ journal'.phase = "Gone"
           Same == journal'.phase = journal.phase
<1>0. journal \in Journals BY DEF IInv, TypeOK
<1>1. ASSUME NEW c \in Controllers, Controller(c) \/ ControllerStops(c)
      PROVE  /\ UNCHANGED disk /\ journal'.receipt = journal.receipt
             /\ Same \/ Edge
   <2>1. UNCHANGED disk
      BY <1>1 DEF Controller, ControllerStops, Ensure, ReadJournal, FindExecutor,
                  BindCleanup, RequestPoolScan, RecordFence, ReadScan, SettleAbsence
   <2>2. journal'.receipt = journal.receipt BY <1>1, ControllerJournal
   <2>3. CASE Ensure(c) BY <2>1, <2>2, <2>3 DEF Ensure, Empty
   <2>4. ASSUME NEW j, UpdateStatus(j) PROVE Same \/ Edge
      BY <2>4 DEF UpdateStatus, ValidTransition, PhaseEdge
   <2>5. CASE journal' = journal BY <2>1, <2>2, <2>5
   <2> QED
      BY <1>1, <2>1, <2>2, <2>3, <2>4, <2>5
         DEF Controller, ControllerStops, ReadJournal, FindExecutor, BindCleanup,
             RequestPoolScan, RecordFence, ReadScan, SettleAbsence
<1>2. ASSUME NEW p \in Pods, Worker(p) \/ WorkerFails(p)
      PROVE  /\ journal.receipt # NoPod => journal'.receipt = journal.receipt
             /\ Same \/ (UNCHANGED disk /\ Edge)
   <2>1. journal.receipt # NoPod => journal'.receipt = journal.receipt
      BY <1>2, WorkerJournal
   <2>2. ASSUME NEW j, UpdateStatus(j) PROVE Same \/ Edge
      BY <2>2 DEF UpdateStatus, ValidTransition, PhaseEdge
   <2>3. CASE Report(p) \/ ReportReview(p)
      BY <2>1, <2>2, <2>3 DEF Report, ReportReview
   <2>4. CASE journal' = journal BY <2>4
   <2> QED
      BY <1>2, <2>1, <2>3, <2>4, Zenon
         DEF Worker, WorkerFails, Approve, Acquire, ReplayReceipt, PrepareIntent,
             Recheck, Retire, Purge, PersistReceipt, SettleReclaim
<1>3. ASSUME NEW p \in Pods,
             Scanner(p) \/ PodLife(p) \/ RestartContainer(p) \/ DeletePod(p)
      PROVE  Same
   BY <1>3, ZenonT(30) DEF Scanner, StartScan, ScanPhysical, ScanRecords, SetPoolStatus,
               PodLife, StartPod, Advertise, RemovePod, RestartContainer, DeletePod
<1>4. CASE Environment
   <2>1. CASE DeleteParent BY <2>1, <1>0 DEF DeleteParent, Journals
   <2>2. CASE journal' = journal BY <2>2
   <2> QED
      BY <1>4, <2>1, <2>2
         DEF Environment, CollectRecord, RevokeAuthority, RestoreAuthority,
             ReplacePath, UpdatePoolSpec
<1> QED BY NextCases, <1>1, <1>2, <1>3, <1>4

LEMMA OutcomeOf ==
    /\ journal.phase \in {"None", "Pending", "Running"} => Outcome = "open"
    /\ journal.phase \in {"Verifying", "ConfirmingAbsence"} => Outcome = "reclaimed"
    /\ journal.phase \in {"Completed", "Gone"} => Outcome = "settled"
    /\ journal.phase = "NeedsReview" => Outcome = "review"
BY DEF Outcome

LEMMA CopyOf == Copy = IF TargetOnDisk \/ Displaced THEN "intact" ELSE "gone"
BY DEF Copy

(* The markers change only under a durable intent, or while the path holds  *)
(* no foreign directory.                                                    *)
LEMMA MarkerCases ==
    ASSUME IInv, Next
    PROVE  \/ UNCHANGED <<intent, receipt>>
           \/ home # "other"
           \/ intent /\ intent'
<1> USE DEF disk
<1>1. CASE \E c \in Controllers : Controller(c) \/ ControllerStops(c)
   BY <1>1 DEF Controller, ControllerStops, Ensure, ReadJournal, FindExecutor,
               BindCleanup, RequestPoolScan, RecordFence, ReadScan, SettleAbsence
<1>2. ASSUME NEW p \in Pods, Worker(p) \/ WorkerFails(p)
      PROVE  UNCHANGED <<intent, receipt>> \/ home # "other" \/ (intent /\ intent')
   <2>1. CASE PersistReceipt(p)
      BY <2>1, Zenon DEF PersistReceipt, At, IInv, EffectInv, EffectSteps
   <2>2. CASE PrepareIntent(p) BY <2>2 DEF PrepareIntent
   <2>3. CASE UNCHANGED <<intent, receipt>> BY <2>3
   <2> QED
      BY <1>2, <2>1, <2>2, <2>3
         DEF Worker, WorkerFails, Approve, Acquire, ReplayReceipt, Recheck,
             Retire, Purge, SettleReclaim, Report, ReportReview
<1>3. CASE \E p \in Pods :
               Scanner(p) \/ PodLife(p) \/ RestartContainer(p) \/ DeletePod(p)
   BY <1>3, Zenon DEF Scanner, StartScan, ScanPhysical, ScanRecords, SetPoolStatus,
               PodLife, StartPod, Advertise, RemovePod, RestartContainer, DeletePod
<1>4. CASE Environment
   BY <1>4 DEF Environment, DeleteParent, CollectRecord, RevokeAuthority,
               RestoreAuthority, ReplacePath, UpdatePoolSpec
<1> QED BY NextCases, <1>1, <1>2, <1>3, <1>4

(* The disk steps: the copy is destroyed at most once and only while open.  *)
LEMMA DestroyStep ==
    ASSUME IInv, IInv', Next, journal'.phase = journal.phase
    PROVE  \/ Copy' = Copy
           \/ /\ Copy = "intact" /\ Copy' = "gone"
              /\ journal.phase \in {"None", "Pending", "Running"}
<1> DEFINE Intact == TargetOnDisk \/ Displaced
           Open == journal.phase \in {"None", "Pending", "Running"}
<1>0. /\ Intact = Intact' \/ (Intact /\ ~Intact' /\ Open)
   <2>1. Open \/ home # "target"
      BY DEF IInv, JournalInv, ReceiptIsEvidence, DiskInv, TargetOnDisk, TypeOK,
             Journals, Phases
   <2>2. CASE \E p \in Pods : Retire(p)
      <3>1. PICK p \in Pods : Retire(p) BY <2>2
      <3>2. /\ intent /\ UNCHANGED <<intent, receipt>>
         BY <3>1, Zenon DEF Retire, At, IInv, EffectInv, EffectSteps
      <3>3. TargetOnDisk' = TargetOnDisk
         BY <3>1 DEF Retire, TargetOnDisk, IInv, TypeOK
      <3> QED BY <3>2, <3>3 DEF Displaced
   <2>3. CASE \E p \in Pods : Purge(p)
      <3>1. PICK p \in Pods : Purge(p) BY <2>3
      <3>2. /\ intent /\ UNCHANGED <<intent, home>> /\ ~retired' /\ Open
         BY <3>1 DEF Purge, At, IInv, EffectInv, EffectSteps
      <3>3. home # "target" BY <3>1 DEF Purge, At, IInv, EffectInv
      <3>4. ~Intact' BY <3>2, <3>3 DEF Displaced, TargetOnDisk
      <3> QED BY <3>2, <3>4
   <2>4. CASE ReplacePath
      BY <2>1, <2>4 DEF ReplacePath, Displaced, TargetOnDisk, IInv, DiskInv, TypeOK
   <2>5. CASE home' = home /\ retired' = retired
      <3>1. TargetOnDisk' = TargetOnDisk BY <2>5 DEF TargetOnDisk
      <3>2. Displaced' = Displaced BY <2>5, MarkerCases DEF Displaced
      <3> QED BY <3>1, <3>2
   <2> QED BY DiskCases, <2>2, <2>3, <2>4, <2>5
<1> QED BY <1>0, CopyOf DEF Copy

LEMMA ContractStep == IInv /\ IInv' /\ [Next]_vars => [Contract!Next]_<<Outcome, Copy>>
<1> SUFFICES ASSUME IInv, IInv', [Next]_vars
             PROVE  [Contract!Next]_<<Outcome, Copy>>
   OBVIOUS
<1> USE DEF Contract!Next, Contract!Destroy, Contract!Report, Contract!Settle,
            Contract!HandOver
<1>1. CASE UNCHANGED vars
   BY <1>1 DEF vars, Outcome, Copy, TargetOnDisk, Displaced
<1>2. CASE Next /\ journal'.phase = journal.phase
   <2>1. Outcome' = Outcome BY <1>2 DEF Outcome
   <2>2. journal.phase \in {"None", "Pending", "Running"} => Outcome = "open"
      BY OutcomeOf
   <2> QED BY <1>2, <2>1, <2>2, DestroyStep
<1>3. CASE Next /\ journal'.phase # journal.phase
   <2>1. /\ UNCHANGED disk
         /\ journal.receipt # NoPod => journal'.receipt = journal.receipt
         /\ \/ journal'.phase \in Allowed(journal.phase)
            \/ journal.phase = "None" /\ journal'.phase = "Pending"
            \/ journal.phase = "Completed" /\ journal'.phase = "Gone"
      BY <1>3, PhaseCases
   <2>2. /\ journal.receipt # NoPod /\ journal.phase # "Gone" => Copy = "gone"
         /\ journal'.receipt # NoPod => Copy' = "gone"
      <3>1. journal.receipt # NoPod /\ journal.phase # "Gone" => Copy = "gone"
         BY DEF IInv, ReceiptIsEvidence, Copy, Displaced
      <3>2. journal'.receipt # NoPod => Copy' = "gone"
         BY DEF IInv, ReceiptIsEvidence, Copy, Displaced
      <3> QED BY <3>1, <3>2
   <2>3. journal.phase # "Gone" /\ journal'.phase # "Gone" => Copy' = Copy
      BY <2>1 DEF Copy, TargetOnDisk, Displaced, disk
   <2>4. /\ journal'.phase \in {"None", "Pending", "Running"} => Outcome' = "open"
         /\ journal'.phase \in {"Verifying", "ConfirmingAbsence"} =>
               Outcome' = "reclaimed"
         /\ journal'.phase \in {"Completed", "Gone"} => Outcome' = "settled"
         /\ journal'.phase = "NeedsReview" => Outcome' = "review"
      BY DEF Outcome
   <2>5. \/ journal.phase \in {"None", "Pending"} /\ journal'.phase \in {"Pending", "Running"}
         \/ journal.phase \in {"Pending", "Running"} /\ journal'.phase = "NeedsReview"
         \/ journal.phase = "Running" /\ journal'.phase = "Verifying"
         \/ journal.phase = "Verifying" /\ journal'.phase = "ConfirmingAbsence"
         \/ journal.phase = "ConfirmingAbsence" /\ journal'.phase = "Completed"
         \/ journal.phase = "Completed" /\ journal'.phase = "Gone"
      BY <1>3, <2>1 DEF Allowed, IInv, JournalInv
   <2>6. /\ journal.phase \in {"Verifying", "ConfirmingAbsence", "Completed"} =>
               journal.receipt # NoPod
         /\ journal'.phase \in {"Verifying", "ConfirmingAbsence", "Completed", "Gone"} =>
               journal'.receipt # NoPod
      BY DEF IInv, JournalInv
   <2> QED BY <2>2, <2>3, <2>4, <2>5, <2>6, OutcomeOf
<1> QED BY <1>1, <1>2, <1>3

(* The journal, the workers and the scans implement the contract of a       *)
(* cleanup: destroyed only while open, reported only when gone, settled     *)
(* only after the report, untouched afterwards.                             *)
THEOREM CleanupImplementsContract == Spec => ImplementsContract
<1>1. Init => Contract!Init
   BY DEF Init, Contract!Init, Outcome, Copy, TargetOnDisk, Empty
<1> QED
   BY <1>1, ContractStep, Invariant, PTL DEF Spec, ImplementsContract, Contract!Spec
=============================================================================
