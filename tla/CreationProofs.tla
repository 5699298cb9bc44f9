--------------------------- MODULE CreationProofs ---------------------------
(***************************************************************************)
(* The safety of the life of one volume name, for any number of its        *)
(* incarnations, of Node Pods, of deletions and of faults.                 *)
(***************************************************************************)
EXTENDS Creation, TLAPS

(* The provers of a leaf that names none.                                    *)
USE SMTT(15), Z3T(15), ZenonT(30)

(* What the object records: the phases in their order, the executor that    *)
(* left the receipt, and a cleanup only under the deletion fence.           *)
VolumeInv ==
    volume # NoVolume =>
        /\ volume.uid <= issued
        /\ volume.phase \in {"", "Pending"} => volume.executor = 0 /\ volume.receipt = 0
        /\ volume.phase = "NodeCreating" =>
              volume.executor # 0 /\ volume.receipt \in {0, volume.executor}
        /\ volume.phase = "Ready" => volume.executor # 0 /\ volume.receipt = volume.executor
        /\ volume.phase # "Deleting" => volume.operation = "" /\ volume.cleanup = "None"
        /\ volume.phase = "Deleting" => volume.operation # ""
        /\ volume.deleting => volume.phase = "" \/ volume.cleanup = "Completed"
        /\ volume.cleanup # "NeedsReview"

(* The directories of a copy, between any two durable writes.               *)
Served(copy) == copy.marker /\ copy.placed /\ copy.at = {"serving"}

Shape(copy) ==
    /\ copy.receipt =>
          copy.at = {} /\ ~copy.marker /\ ~copy.placed /\ copy.intent # "none"
    /\ ~copy.receipt /\ copy.intent = "none" =>
          /\ copy.at \in {{}, {"stage"}, {"serving"}}
          /\ copy.placed => copy.marker /\ copy.at # {}
          /\ copy.at # {} => copy.marker
          /\ copy.at = {"serving"} => copy.placed
    /\ ~copy.receipt /\ copy.intent = "empty" => copy.at = {} /\ ~copy.placed
    /\ ~copy.receipt /\ copy.intent = "inode" =>
          copy.marker /\ copy.at \in {{}, {"stage"}, {"serving"}, {"retired"}}

(* The object and the disk agree.                                           *)
DiskInv(u) ==
    /\ Shape(disk[u])
    /\ u > issued => disk[u] = Untouched
    /\ disk[u].at # {} => volume.uid = u
    /\ volume.uid = u =>
          /\ volume.phase \in {"", "Pending"} => disk[u] = Untouched
          /\ volume.phase # "Deleting" => disk[u].intent = "none"
          /\ volume.phase \in {"NodeCreating", "Ready"} /\ volume.receipt # 0 => Served(disk[u])
          /\ volume.operation = "delete" /\ disk[u].intent = "none" => Served(disk[u])
          /\ volume.cleanup \in {"Verifying", "Completed"} => disk[u].receipt

(* What a process relies on: the flock keeps the object and its copy's      *)
(* state until it is released, and without it only a receipt is durable.    *)
Holding == {"serve", "prepare", "retire", "purge", "settle"}
Reclaiming == {"reclaim", "prepare", "retire", "purge", "settle", "report"}

WorkInv(p) ==
    LET u == work[p].uid
        step == work[p].step
    IN step # "idle" =>
        /\ u \in 1..issued /\ step # "review"
        /\ volume.uid = u => volume.phase \in {"NodeCreating", "Ready", "Deleting"}
        /\ step \in Reclaiming /\ volume.uid = u => volume.phase = "Deleting"
        /\ step \in Holding => lock = p /\ volume.uid = u /\ ~disk[u].receipt
        /\ step = "serve" => disk[u].intent = "none"
        /\ step = "record" /\ disk[u].intent = "none" => Served(disk[u])
        /\ step = "retire" => disk[u].intent = "inode"
        /\ step = "purge" => disk[u].intent = "inode" /\ disk[u].at \subseteq {"retired"}
        /\ step = "settle" => disk[u].intent # "none" /\ disk[u].at = {}
        /\ step = "report" => disk[u].receipt

(* What a call relies on.  The object may have gone in the meantime, but    *)
(* its UID does not come back.                                              *)
CallInv(t) ==
    LET u == call[t].uid
        step == call[t].step
    IN  /\ u <= issued
        /\ step \in {"complete", "finalize"} /\ Same(t) => ValidCreationReceipt
        /\ step = "respond" => u # 0
        /\ step = "respond" /\ asked = 0 => Same(t) /\ volume.phase = "Ready"
        /\ step \in {"delete", "fence"} => asked > 0
        /\ step = "settle" /\ Same(t) => volume.phase = "Deleting"
        /\ step \in {"remove", "release"} /\ Same(t) => volume.cleanup = "Completed"

RepliedInv ==
    asked = 0 => \A u \in replied : volume.uid = u /\ volume.phase = "Ready"
PendingInv == pending => asked > 0

(* The inductive invariant.                                                 *)
IInv ==
    /\ TypeOK /\ VolumeInv /\ RepliedInv /\ PendingInv
    /\ \A u \in Uids : DiskInv(u)
    /\ \A p \in Pods : WorkInv(p)
    /\ \A t \in Threads : CallInv(t)

-----------------------------------------------------------------------------
(* Types.                                                                   *)

(* Constants and records that every step uses.                              *)
LEMMA Basics ==
    /\ MaxUid \in Nat /\ MaxPod \in Nat /\ 1 \in Pods /\ MaxDeletes \in Nat /\ MaxFaults \in Nat
    /\ NoVolume.uid = 0 /\ Idle \in Calls /\ Idle \in Works
    /\ Idle.step = "idle" /\ Idle.uid = 0
    /\ "csi" \in Threads /\ "gc" \in Threads
    /\ Uids \subseteq Nat \ {0} /\ Pods \subseteq Nat \ {0}
  BY CreationAssumption
    DEF Pods, Uids, NoVolume, Idle, Calls, Works, CallSteps, WorkSteps, Threads

(* A UID that has been handed out.                                          *)
LEMMA UidRange ==
    ASSUME NEW n \in 0..MaxUid, NEW u \in 1..n
    PROVE  n \in Nat /\ u \in Uids /\ ~(u > n)
  BY Basics DEF Uids

(* An object read from the API is absent exactly when its UID is 0.         *)
LEMMA ObjectFacts ==
    ASSUME NEW object \in Volumes \cup {NoVolume}
    PROVE  /\ object = NoVolume <=> object.uid = 0
           /\ object # NoVolume => object \in Volumes /\ object.uid \in Uids
           /\ object.uid \in 0..MaxUid
  <1>1. \A w \in Volumes : w.uid \in Uids
    BY Zenon DEF Volumes
  <1>2. 0 \in 0..MaxUid /\ \A u \in Uids : u # 0 /\ u \in 0..MaxUid
    BY Basics DEF Uids
  <1> QED  BY <1>1, <1>2, Basics, Zenon

(* The same of the object stored now.                                       *)
LEMMA VolumeFacts ==
    ASSUME TypeOK
    PROVE  /\ volume = NoVolume <=> volume.uid = 0
           /\ volume # NoVolume => volume \in Volumes /\ volume.uid \in Uids
           /\ volume.uid \in 0..MaxUid
  BY ObjectFacts DEF TypeOK

(* A call that goes on changes its own record only.                         *)
LEMMA GotoEffect ==
    ASSUME call \in [Threads -> Calls], NEW t \in Threads, NEW step \in CallSteps,
           NEW u \in 0..MaxUid, Goto(t, step, u)
    PROVE  /\ call' \in [Threads -> Calls]
           /\ call'[t].step = step /\ call'[t].uid = u
           /\ \A s \in Threads \ {t} : call'[s] = call[s]
  <1>1. Step(step, u) \in Calls /\ Step(step, u).step = step /\ Step(step, u).uid = u
    BY DEF Step, Calls
  <1> QED  BY <1>1 DEF Goto

(* A call that returns forgets what it has read.                            *)
LEMMA ReturnEffect ==
    ASSUME call \in [Threads -> Calls], NEW t \in Threads, Return(t)
    PROVE  /\ call' \in [Threads -> Calls]
           /\ call'[t].step = "idle" /\ call'[t].uid = 0
           /\ \A s \in Threads \ {t} : call'[s] = call[s]
  BY Basics DEF Return

-----------------------------------------------------------------------------
(* What a step may do to the object.                                        *)

KeepsUid == volume # NoVolume /\ volume' \in Volumes /\ volume'.uid = volume.uid /\ issued' = issued
KeepsCreation ==
    /\ volume'.executor = volume.executor /\ volume'.receipt = volume.receipt
KeepsFence ==
    /\ volume'.operation = volume.operation /\ volume'.cleanup = volume.cleanup

Creates ==
    /\ volume = NoVolume /\ volume' \in Volumes
    /\ volume'.uid = issued + 1 /\ issued' = issued + 1
    /\ volume'.phase = "" /\ ~volume'.deleting /\ volume'.executor = 0 /\ volume'.receipt = 0
    /\ volume'.operation = "" /\ volume'.cleanup = "None"
Removes ==
    /\ volume # NoVolume /\ volume' = NoVolume /\ issued' = issued
    /\ volume.phase = "" \/ volume.cleanup = "Completed"
Pends ==
    /\ KeepsUid /\ KeepsCreation /\ KeepsFence /\ volume'.deleting = volume.deleting
    /\ volume.phase = "" /\ ~volume.deleting /\ volume'.phase = "Pending"
Binds ==
    /\ KeepsUid /\ KeepsFence /\ volume'.deleting = volume.deleting
    /\ volume.phase \in {"Pending", "NodeCreating"} /\ volume.receipt = 0
    /\ volume'.phase = "NodeCreating" /\ volume'.executor # 0 /\ volume'.receipt = 0
Receives ==
    /\ KeepsUid /\ KeepsFence /\ volume'.deleting = volume.deleting
    /\ volume.phase = "NodeCreating" /\ volume'.phase = "NodeCreating"
    /\ volume'.executor = volume.executor /\ volume'.receipt = volume.executor
    /\ Served(disk[volume.uid])
Completes ==
    /\ KeepsUid /\ KeepsCreation /\ KeepsFence /\ volume'.deleting = volume.deleting
    /\ volume.phase \in {"NodeCreating", "Ready"} /\ volume.executor # 0
    /\ volume.receipt = volume.executor /\ volume'.phase = "Ready"
Fences ==
    /\ KeepsUid /\ KeepsCreation /\ volume'.deleting = volume.deleting
    /\ volume'.cleanup = volume.cleanup /\ volume'.phase = "Deleting"
    /\ \/ /\ volume.phase = "Ready" /\ volume'.operation = "delete" /\ asked > 0
       \/ /\ volume.phase \in {"Pending", "NodeCreating"} /\ volume'.operation = "cancel"
       \/ /\ volume.phase = "Deleting" /\ volume'.operation = volume.operation
Marks ==
    /\ KeepsUid /\ KeepsCreation /\ KeepsFence /\ volume'.phase = volume.phase /\ volume'.deleting
    /\ volume.phase = "" \/ volume.cleanup = "Completed"
Cleans ==
    /\ KeepsUid /\ KeepsCreation /\ volume'.deleting = volume.deleting
    /\ volume'.operation = volume.operation
    /\ volume.phase = "Deleting" /\ volume'.phase = "Deleting"
    /\ \/ volume.cleanup = "None" /\ volume'.cleanup = "Pending"
       \/ volume.cleanup \in {"Pending", "Running"} /\ volume'.cleanup = "Running"
       \/ /\ volume.cleanup = "Running" /\ volume'.cleanup = "Verifying"
          /\ disk[volume.uid].receipt
       \/ volume.cleanup = "Verifying" /\ volume'.cleanup = "Completed"

VolumeWrite ==
    \/ volume' = volume /\ issued' = issued
    \/ Creates \/ Removes \/ Pends \/ Binds \/ Receives \/ Completes \/ Fences \/ Marks \/ Cleans

(* A permitted write of the object keeps what the object records.           *)
LEMMA VolumeKept ==
    ASSUME IInv, VolumeWrite
    PROVE  VolumeInv'
  <1>0. VolumeInv /\ TypeOK
    BY DEF IInv
  <1>1. issued \in 0..MaxUid /\ volume \in Volumes \cup {NoVolume}
    BY <1>0 DEF TypeOK
  <1>2. CASE volume' = volume /\ issued' = issued
    BY <1>0, <1>2, Zenon DEF VolumeInv
  <1>3. CASE Creates
    <2>1. volume'.uid <= issued'
      <3>1. volume'.uid = issued + 1 /\ issued' = issued + 1
        BY <1>3, Zenon DEF Creates
      <3>2. issued \in Nat
        BY <1>1, Basics
      <3> QED  BY <3>1, <3>2
    <2> QED  BY <1>3, <2>1, Zenon DEF Creates, VolumeInv
  <1>4. CASE Removes
    BY <1>4, Zenon DEF Removes, VolumeInv
  <1>5. CASE Pends \/ Binds
    BY <1>0, <1>5, Zenon DEF VolumeInv, Pends, Binds, KeepsUid, KeepsCreation, KeepsFence
  <1>6. CASE Receives \/ Completes
    BY <1>0, <1>6, Zenon
      DEF VolumeInv, Receives, Completes, KeepsUid, KeepsCreation, KeepsFence
  <1>7. CASE Fences
    BY <1>0, <1>7, Zenon DEF VolumeInv, Fences, KeepsUid, KeepsCreation
  <1>8. CASE Marks \/ Cleans
    BY <1>0, <1>8, Zenon DEF VolumeInv, Marks, Cleans, KeepsUid, KeepsCreation, KeepsFence
  <1> QED  BY <1>2, <1>3, <1>4, <1>5, <1>6, <1>7, <1>8 DEF VolumeWrite

(* A permitted write of the object keeps its agreement with the disk.       *)
LEMMA DiskKept ==
    ASSUME IInv, VolumeWrite, disk' = disk, NEW u \in Uids
    PROVE  DiskInv(u)'
  <1>0. VolumeInv /\ TypeOK /\ DiskInv(u)
    BY DEF IInv
  <1>1. /\ issued \in Nat /\ volume \in Volumes \cup {NoVolume} /\ u \in Nat \ {0}
        /\ Untouched.intent = "none" /\ Untouched.at = {}
    BY <1>0, Basics DEF TypeOK, Untouched
  <1>2. /\ Shape(disk[u])' /\ disk'[u] = disk[u]
        /\ Served(disk[u])' <=> Served(disk[u])
    BY <1>0, Zenon DEF DiskInv, Shape, Served
  <1>3. CASE volume' = volume /\ issued' = issued
    BY <1>0, <1>2, <1>3, Zenon DEF DiskInv
  <1>4. CASE Creates
    <2>1. /\ volume'.uid = u => disk[u] = Untouched
          /\ u > issued' => disk[u] = Untouched
          /\ disk[u].at = {}
      <3>1. volume.uid = 0
        BY <1>4, Basics, Zenon DEF Creates
      <3>2. volume'.uid = issued + 1 /\ issued' = issued + 1
        BY <1>4, Zenon DEF Creates
      <3>3. (u > issued => disk[u] = Untouched) /\ (disk[u].at # {} => volume.uid = u)
        BY <1>0, Zenon DEF DiskInv
      <3> QED  BY <1>1, <3>1, <3>2, <3>3
    <2> QED  BY <1>1, <1>2, <1>4, <2>1, Zenon DEF DiskInv, Creates
  <1>5. CASE Removes
    <2>1. volume.uid = u => disk[u].at = {}
      BY <1>0, <1>1, <1>5, Zenon DEF Removes, DiskInv, Shape
    <2> QED  BY <1>0, <1>1, <1>2, <1>5, <2>1, Basics, Zenon DEF DiskInv, Removes
  <1>6. CASE Pends \/ Binds
    BY <1>0, <1>1, <1>2, <1>6, Zenon
      DEF DiskInv, VolumeInv, Pends, Binds, KeepsUid, KeepsCreation, KeepsFence
  <1>7. CASE Receives \/ Completes
    BY <1>0, <1>1, <1>2, <1>7, Zenon
      DEF DiskInv, VolumeInv, Receives, Completes, KeepsUid, KeepsCreation, KeepsFence
  <1>8. CASE Fences
    BY <1>0, <1>1, <1>2, <1>8, Zenon DEF DiskInv, VolumeInv, Fences, KeepsUid, KeepsCreation
  <1>9. CASE Marks \/ Cleans
    BY <1>0, <1>1, <1>2, <1>9, Zenon
      DEF DiskInv, VolumeInv, Marks, Cleans, KeepsUid, KeepsCreation, KeepsFence
  <1> QED  BY <1>3, <1>4, <1>5, <1>6, <1>7, <1>8, <1>9 DEF VolumeWrite

(* A write in the order of the phases never leads back.                     *)
LEMMA PhaseOrder ==
    ASSUME IInv, VolumeWrite, volume'.uid = volume.uid, volume # NoVolume
    PROVE  /\ volume' # NoVolume
           /\ volume.phase \in {"NodeCreating", "Ready", "Deleting"} =>
                 volume'.phase \in {"NodeCreating", "Ready", "Deleting"}
           /\ volume.phase = "Deleting" => volume'.phase = "Deleting"
           /\ volume.phase = "Ready" /\ asked = 0 => volume'.phase = "Ready"
           /\ volume.cleanup = "Completed" => volume'.cleanup = "Completed"
           /\ ValidCreationReceipt => ValidCreationReceipt'
  <1>0. TypeOK /\ VolumeInv
    BY DEF IInv
  <1>1. ~Creates /\ ~Removes
    BY <1>0, VolumeFacts, Basics, Zenon DEF Creates, Removes
  <1>2. (asked = 0 => ~(asked > 0)) /\ volume' # NoVolume
    BY <1>0, VolumeFacts, Basics
  <1>3. CASE volume' = volume
    BY <1>2, <1>3 DEF ValidCreationReceipt
  <1>4. CASE Pends \/ Binds
    BY <1>0, <1>2, <1>4, Zenon
       DEF VolumeInv, ValidCreationReceipt, Pends, Binds, KeepsUid, KeepsCreation,
            KeepsFence
  <1>5. CASE Receives \/ Completes
    BY <1>0, <1>2, <1>5, Zenon
       DEF VolumeInv, ValidCreationReceipt, Receives, Completes, KeepsUid, KeepsCreation,
            KeepsFence
  <1>6. CASE Fences
    BY <1>0, <1>2, <1>6, Zenon
       DEF VolumeInv, ValidCreationReceipt, Fences, KeepsUid, KeepsCreation
  <1>7. CASE Marks \/ Cleans
    BY <1>0, <1>2, <1>7, Zenon
       DEF VolumeInv, ValidCreationReceipt, Marks, Cleans, KeepsUid, KeepsCreation,
            KeepsFence
  <1> QED  BY <1>1, <1>3, <1>4, <1>5, <1>6, <1>7 DEF VolumeWrite

(* The UID of the object is either kept, given up, or new.                  *)
LEMMA UidOrder ==
    ASSUME IInv, VolumeWrite
    PROVE  /\ issued \in Nat /\ issued' \in Nat /\ issued' >= issued
           /\ \/ volume'.uid = volume.uid
              \/ volume'.uid = 0 /\ Removes
              \/ volume'.uid = issued + 1 /\ volume.uid = 0
  <1>1. issued \in Nat
    BY Basics DEF IInv, TypeOK
  <1>2. CASE Creates
    <2>1. /\ volume'.uid = issued + 1 /\ issued' = issued + 1 /\ volume.uid = 0
      BY <1>2, Basics, Zenon DEF Creates
    <2> QED  BY <1>1, <2>1
  <1>3. CASE Removes
    <2>1. volume'.uid = 0 /\ issued' = issued
      BY <1>3, Basics, Zenon DEF Removes
    <2> QED  BY <1>1, <1>3, <2>1
  <1>4. CASE issued' = issued /\ volume'.uid = volume.uid
    BY <1>1, <1>4
  <1> QED
    BY <1>2, <1>3, <1>4, Zenon
       DEF VolumeWrite, Pends, Binds, Receives, Completes, Fences, Marks, Cleans, KeepsUid

(* A permitted write of the object keeps what a process of a Pod relies on. *)
LEMMA WorkKept ==
    ASSUME IInv, VolumeWrite, UNCHANGED <<disk, lock>>, NEW p \in Pods, work'[p] = work[p]
    PROVE  WorkInv(p)'
  <1> SUFFICES ASSUME work[p].step # "idle" PROVE WorkInv(p)'
    BY DEF WorkInv
  <1>0. WorkInv(p) /\ TypeOK /\ VolumeInv
    BY DEF IInv
  <1>1. work[p].uid \in Nat /\ work[p].uid \in Uids
    BY <1>0, UidOrder, Basics DEF WorkInv, TypeOK, Works, Uids
  <1>2. work[p].uid \in 1..issued'
    BY <1>0, <1>1, UidOrder DEF WorkInv
  <1>3. volume'.uid = work[p].uid => volume.uid = work[p].uid /\ volume # NoVolume
    BY <1>0, <1>1, UidOrder, VolumeFacts DEF WorkInv
  <1>4. Served(disk[work[p].uid])' <=> Served(disk[work[p].uid])
    BY DEF Served
  <1>5. ASSUME work[p].step \in Holding PROVE volume'.uid = work[p].uid
    <2>1. volume.uid = work[p].uid /\ volume # NoVolume /\ ~disk[volume.uid].receipt
      BY <1>0, <1>1, <1>5, VolumeFacts DEF WorkInv
    <2>2. volume.phase # "" /\ volume.cleanup # "Completed"
      BY <1>0, <1>1, <2>1, Zenon DEF WorkInv, IInv, DiskInv
    <2>3. volume.uid # 0 /\ ~Removes
      BY <1>1, <2>1, <2>2, Basics, Zenon DEF Removes
    <2> QED  BY <2>1, <2>3, UidOrder
  <1>6. volume'.uid = work[p].uid =>
            /\ volume'.phase \in {"NodeCreating", "Ready", "Deleting"}
            /\ work[p].step \in Reclaiming => volume'.phase = "Deleting"
    BY <1>0, <1>3, PhaseOrder DEF WorkInv
  <1> QED  BY <1>0, <1>2, <1>4, <1>5, <1>6 DEF WorkInv

(* A permitted write of the object keeps what another call relies on.       *)
LEMMA CallKept ==
    ASSUME IInv, VolumeWrite, NEW t \in Threads, call'[t] = call[t], asked' \in {asked, asked + 1}
    PROVE  CallInv(t)'
  <1>0. CallInv(t) /\ TypeOK /\ VolumeInv
    BY DEF IInv
  <1>1. call[t].uid \in Nat /\ asked \in Nat
    BY <1>0, Basics DEF TypeOK, Calls
  <1>2. call[t].uid <= issued'
    BY <1>0, <1>1, UidOrder DEF CallInv
  <1>3. (volume'.uid = call[t].uid /\ volume' # NoVolume) => Same(t) /\ volume'.uid = volume.uid
    <2> SUFFICES ASSUME volume'.uid = call[t].uid, volume' # NoVolume
                 PROVE  Same(t) /\ volume'.uid = volume.uid
      OBVIOUS
    <2>1. volume'.uid # issued + 1 /\ ~Removes
      <3>1. call[t].uid <= issued
        BY <1>0 DEF CallInv
      <3>2. ~Removes
        BY Zenon DEF Removes
      <3>3. issued \in Nat
        BY UidOrder
      <3> QED  BY <1>1, <3>1, <3>2, <3>3
    <2>2. volume # NoVolume
      BY <2>1, Zenon
        DEF VolumeWrite, Creates, Pends, Binds, Receives, Completes, Fences, Marks, Cleans,
                  KeepsUid
    <2> QED  BY <2>1, <2>2, UidOrder DEF Same, Uid
  <1>4. Same(t)' => Same(t) /\ volume'.uid = volume.uid /\ volume # NoVolume
    BY <1>3 DEF Same, Uid
  <1>5. ASSUME call[t].step = "respond", asked' = 0 PROVE Same(t)' /\ volume'.phase = "Ready"
    <2>1. asked = 0 /\ Same(t) /\ volume.phase = "Ready" /\ volume # NoVolume
      BY <1>0, <1>1, <1>5 DEF CallInv, Same
    <2>2. ~Removes
      BY <1>0, <2>1, Zenon DEF Removes, VolumeInv
    <2>3. volume'.uid = volume.uid
      BY <1>0, <2>1, <2>2, UidOrder, VolumeFacts
    <2>4. volume' # NoVolume /\ volume'.phase = "Ready"
      BY <2>1, <2>3, PhaseOrder
    <2> QED  BY <2>1, <2>3, <2>4 DEF Same, Uid
  <1>6. Same(t)' => /\ call[t].step \in {"complete", "finalize"} => ValidCreationReceipt'
                    /\ call[t].step = "settle" => volume'.phase = "Deleting"
                    /\ call[t].step \in {"remove", "release"} => volume'.cleanup = "Completed"
    BY <1>0, <1>4, PhaseOrder DEF CallInv
  <1>7. call[t].step \in {"delete", "fence"} => asked' > 0
    BY <1>0, <1>1 DEF CallInv
  <1> QED  BY <1>0, <1>2, <1>5, <1>6, <1>7 DEF CallInv

(* A permitted write of the object keeps the volumes the CO was told of.    *)
LEMMA RepliedKept ==
    ASSUME IInv, VolumeWrite, asked' \in {asked, asked + 1}, replied' = replied
    PROVE  RepliedInv'
  <1> SUFFICES ASSUME asked' = 0, NEW u \in replied PROVE volume'.uid = u /\ volume'.phase = "Ready"
    BY DEF RepliedInv
  <1>0. TypeOK /\ VolumeInv /\ RepliedInv
    BY DEF IInv
  <1>1. asked = 0 /\ u \in Uids /\ u # 0
    BY <1>0, Basics DEF TypeOK
  <1>2. volume.uid = u /\ volume.phase = "Ready" /\ volume # NoVolume
    BY <1>0, <1>1, VolumeFacts DEF RepliedInv
  <1>3. ~Removes
    BY <1>0, <1>2, Zenon DEF Removes, VolumeInv
  <1> QED  BY <1>1, <1>2, <1>3, UidOrder, PhaseOrder

-----------------------------------------------------------------------------
(* The steps of the calls.                                                  *)

(* A step of one call keeps the invariant if its write is permitted and the *)
(* call may rely on what it now relies on.                                  *)
LEMMA CallStep ==
    ASSUME IInv, VolumeWrite, volume' \in Volumes \cup {NoVolume}, issued' \in 0..MaxUid,
           UNCHANGED <<disk, lock, pod, work, inventory, claim, replied>>,
           pv' \in BOOLEAN, pending' \in BOOLEAN, faults' \in 0..MaxFaults,
           asked' \in 0..MaxDeletes, asked' \in {asked, asked + 1}, PendingInv',
           NEW t \in Threads, call' \in [Threads -> Calls],
           \A s \in Threads \ {t} : call'[s] = call[s], CallInv(t)'
    PROVE  IInv'
  <1>1. TypeOK'
    BY DEF IInv, TypeOK
  <1>2. \A u \in Uids : DiskInv(u)'
    BY DiskKept
  <1>3. \A p \in Pods : WorkInv(p)'
    BY WorkKept
  <1>4. \A s \in Threads : CallInv(s)'
    BY CallKept
  <1> QED  BY <1>1, <1>2, <1>3, <1>4, VolumeKept, RepliedKept DEF IInv

(* A step of one call that writes nothing.                                  *)
LEMMA CallOnly ==
    ASSUME IInv, UNCHANGED <<volume, disk, lock, pod, work, cluster>>,
           NEW t \in Threads, call' \in [Threads -> Calls],
           \A s \in Threads \ {t} : call'[s] = call[s], CallInv(t)'
    PROVE  IInv'
  <1>1. VolumeWrite /\ UNCHANGED <<issued, inventory, claim, pv, replied, asked, pending, faults>>
    BY DEF VolumeWrite, cluster
  <1>2. /\ volume' \in Volumes \cup {NoVolume} /\ issued' \in 0..MaxUid
        /\ pv' \in BOOLEAN /\ pending' \in BOOLEAN /\ faults' \in 0..MaxFaults
        /\ asked' \in 0..MaxDeletes /\ PendingInv'
    BY <1>1 DEF IInv, TypeOK, PendingInv
  <1> QED  BY <1>1, <1>2, CallStep

(* A step of one call that writes the object alone.                         *)
LEMMA CallAndVolume ==
    ASSUME IInv, VolumeWrite, volume' \in Volumes \cup {NoVolume},
           UNCHANGED <<disk, lock, pod, work, cluster>>,
           NEW t \in Threads, call' \in [Threads -> Calls],
           \A s \in Threads \ {t} : call'[s] = call[s], CallInv(t)'
    PROVE  IInv'
  <1>1. UNCHANGED <<issued, inventory, claim, pv, replied, asked, pending, faults>>
    BY DEF cluster
  <1>2. /\ issued' \in 0..MaxUid /\ pv' \in BOOLEAN /\ pending' \in BOOLEAN
        /\ faults' \in 0..MaxFaults /\ asked' \in 0..MaxDeletes /\ PendingInv'
    BY <1>1 DEF IInv, TypeOK, PendingInv
  <1> QED  BY <1>1, <1>2, CallStep

(* Most steps rely on nothing but the order of the UIDs.                    *)
Relying == {"complete", "finalize", "respond", "delete", "fence", "settle", "remove", "release"}

(* A call at a step that relies on nothing.                                 *)
LEMMA PlainCall ==
    ASSUME NEW t \in Threads, call'[t].step \notin Relying, call'[t].uid <= issued'
    PROVE  CallInv(t)'
  BY DEF CallInv, Relying

(* Every UID in sight has been issued.                                      *)
LEMMA CallBasics ==
    ASSUME IInv
    PROVE  /\ call \in [Threads -> Calls] /\ issued \in Nat /\ issued \in 0..MaxUid
           /\ 0 \in 0..MaxUid /\ 0 <= issued
           /\ volume.uid \in 0..MaxUid /\ volume.uid <= issued
           /\ \A t \in Threads : call[t].uid \in 0..MaxUid /\ call[t].uid <= issued
  <1>1. TypeOK /\ VolumeInv /\ \A t \in Threads : CallInv(t)
    BY DEF IInv
  <1>2. issued \in Nat /\ 0 \in 0..MaxUid
    BY <1>1, Basics DEF TypeOK
  <1>3. volume.uid <= issued
    <2>1. CASE volume = NoVolume
      BY <1>2, <2>1, Basics
    <2>2. CASE volume # NoVolume
      BY <1>1, <2>2, Zenon DEF VolumeInv
    <2> QED  BY <2>1, <2>2
  <1>4. \A t \in Threads : call[t].uid \in 0..MaxUid /\ call[t].uid <= issued
    BY <1>1 DEF CallInv, TypeOK, Calls
  <1> QED  BY <1>1, <1>2, <1>3, <1>4, VolumeFacts DEF TypeOK

(* A call that goes to such a step, or returns.                             *)
LEMMA PlainGoto ==
    ASSUME IInv, NEW t \in Threads, NEW step \in CallSteps \ Relying,
           NEW u \in 0..MaxUid, u <= issued, Goto(t, step, u), issued' = issued
    PROVE  /\ call' \in [Threads -> Calls] /\ \A s \in Threads \ {t} : call'[s] = call[s]
           /\ CallInv(t)'
  <1>1. /\ call' \in [Threads -> Calls] /\ \A s \in Threads \ {t} : call'[s] = call[s]
        /\ call'[t].step = step /\ call'[t].uid = u
    BY CallBasics, GotoEffect
  <1> QED  BY <1>1, PlainCall

(* A call that returns relies on nothing.                                   *)
LEMMA PlainReturn ==
    ASSUME IInv, NEW t \in Threads, Return(t), issued' = issued
    PROVE  /\ call' \in [Threads -> Calls] /\ \A s \in Threads \ {t} : call'[s] = call[s]
           /\ CallInv(t)'
  <1>1. /\ call' \in [Threads -> Calls] /\ \A s \in Threads \ {t} : call'[s] = call[s]
        /\ call'[t].step = "idle" /\ call'[t].uid = 0
    BY CallBasics, ReturnEffect
  <1>2. "idle" \notin Relying
    BY DEF Relying
  <1> QED  BY <1>1, <1>2, PlainCall, CallBasics

(* A call that has read the finished creation.                              *)
LEMMA GotoRespond ==
    ASSUME IInv, NEW t \in Threads, volume # NoVolume, volume.phase = "Ready",
           Goto(t, "respond", volume.uid), UNCHANGED <<volume, issued>>
    PROVE  /\ call' \in [Threads -> Calls] /\ \A s \in Threads \ {t} : call'[s] = call[s]
           /\ CallInv(t)'
  <1>1. "respond" \in CallSteps /\ volume.uid # 0
    BY VolumeFacts DEF CallSteps, IInv
  <1>2. /\ call' \in [Threads -> Calls] /\ \A s \in Threads \ {t} : call'[s] = call[s]
        /\ call'[t].step = "respond" /\ call'[t].uid = volume.uid
    BY <1>1, CallBasics, GotoEffect
  <1> QED  BY <1>1, <1>2, CallBasics DEF CallInv, Same, Uid

(* The reads at the start of CreateVolume keep the invariant.               *)
LEMMA ReadSteps ==
    ASSUME IInv, CreateVolume \/ ReadCreationIntent
    PROVE  IInv'
  <1>0. "read" \in CallSteps \ Relying /\ "place" \in CallSteps \ Relying
        /\ "initialize" \in CallSteps \ Relying /\ "resume" \in CallSteps \ Relying
    BY DEF CallSteps, Relying
  <1>1. UNCHANGED <<volume, disk, lock, pod, work, cluster>> /\ issued' = issued
    BY DEF CreateVolume, ReadCreationIntent, cluster
  <1>2. \/ Goto("csi", "read", 0) \/ Goto("csi", "place", 0) \/ Return("csi")
        \/ \E step \in {"initialize", "resume"} : Goto("csi", step, volume.uid)
        \/ volume # NoVolume /\ volume.phase = "Ready" /\ Goto("csi", "respond", volume.uid)
    BY Zenon DEF CreateVolume, ReadCreationIntent, ValidReadyCreationHistory
  <1>3. /\ call' \in [Threads -> Calls] /\ \A s \in Threads \ {"csi"} : call'[s] = call[s]
        /\ CallInv("csi")'
    BY <1>0, <1>1, <1>2, Basics, CallBasics, PlainGoto, PlainReturn, GotoRespond
  <1> QED  BY <1>1, <1>3, Basics, CallOnly

(* Field writes of the object.                                              *)

(* What a write of the phase alone changes.                                 *)
LEMMA WriteOnePhase ==
    ASSUME volume \in Volumes, NEW phase \in Phases, volume' = [volume EXCEPT !.phase = phase]
    PROVE  /\ volume' \in Volumes /\ volume'.uid = volume.uid /\ volume'.phase = phase
           /\ volume'.deleting = volume.deleting /\ KeepsCreation /\ KeepsFence
  BY Zenon DEF Volumes, KeepsCreation, KeepsFence

(* What the write of a deletion or cancellation fence changes.              *)
LEMMA WriteFence ==
    ASSUME volume \in Volumes, NEW operation \in {"cancel", "delete"},
           volume' = [volume EXCEPT !.phase = "Deleting", !.operation = operation]
    PROVE  /\ volume' \in Volumes /\ volume'.uid = volume.uid /\ volume'.phase = "Deleting"
           /\ volume'.operation = operation /\ volume'.cleanup = volume.cleanup
           /\ volume'.deleting = volume.deleting /\ KeepsCreation
  BY Zenon DEF Volumes, KeepsCreation, Phases

(* What binding a creation to its executor changes.                         *)
LEMMA WriteBinding ==
    ASSUME volume \in Volumes, pod \in Pods, BindCreation
    PROVE  /\ volume' \in Volumes /\ volume'.uid = volume.uid /\ volume'.phase = "NodeCreating"
           /\ volume'.executor = pod /\ volume'.receipt = volume.receipt
           /\ volume'.deleting = volume.deleting /\ KeepsFence
  <1>1. pod \in 0..MaxPod /\ "NodeCreating" \in Phases
    BY Basics DEF Pods, Phases
  <1> QED  BY <1>1, Zenon DEF Volumes, KeepsFence, BindCreation

(* What the API's deletion mark changes.                                    *)
LEMMA WriteDeleting ==
    ASSUME volume \in Volumes, volume' = [volume EXCEPT !.deleting = TRUE]
    PROVE  /\ volume' \in Volumes /\ volume'.uid = volume.uid /\ volume'.deleting
           /\ volume'.phase = volume.phase /\ KeepsCreation /\ KeepsFence
  BY Zenon DEF Volumes, KeepsCreation, KeepsFence

(* What a write of the cleanup journal changes.                             *)
LEMMA WriteCleanup ==
    ASSUME volume \in Volumes, NEW cleanup \in Journal, NEW cleaner \in 0..MaxPod,
           \/ volume' = [volume EXCEPT !.cleanup = cleanup]
           \/ volume' = [volume EXCEPT !.cleanup = cleanup, !.cleaner = cleaner]
    PROVE  /\ volume' \in Volumes /\ volume'.uid = volume.uid /\ volume'.cleanup = cleanup
           /\ volume'.phase = volume.phase /\ volume'.operation = volume.operation
           /\ volume'.deleting = volume.deleting /\ KeepsCreation
  BY Zenon DEF Volumes, KeepsCreation

(* What the executor's receipt changes.                                     *)
LEMMA WriteReceipt ==
    ASSUME volume \in Volumes, NEW p \in Pods, volume' = [volume EXCEPT !.receipt = p]
    PROVE  /\ volume' \in Volumes /\ volume'.uid = volume.uid /\ volume'.phase = volume.phase
           /\ volume'.executor = volume.executor /\ volume'.receipt = p
           /\ volume'.deleting = volume.deleting /\ KeepsFence
  <1>1. p \in 0..MaxPod
    BY Basics DEF Pods
  <1> QED  BY <1>1, Zenon DEF Volumes, KeepsFence

(* Reading the claim keeps the invariant.                                   *)
LEMMA InspectStep ==
    ASSUME IInv, InspectCreationClaim
    PROVE  IInv'
  <1>1. UNCHANGED <<volume, disk, lock, pod, work, cluster>> /\ issued' = issued
    BY DEF InspectCreationClaim, cluster
  <1>2. \/ \E step \in {"create", "recreate", "begin"} : Goto("csi", step, Uid("csi"))
        \/ Return("csi")
    BY DEF InspectCreationClaim, ClaimInspected
  <1>3. {"create", "recreate", "begin"} \subseteq CallSteps \ Relying
    BY DEF CallSteps, Relying
  <1>4. /\ call' \in [Threads -> Calls] /\ \A s \in Threads \ {"csi"} : call'[s] = call[s]
        /\ CallInv("csi")'
    BY <1>1, <1>2, <1>3, Basics, CallBasics, PlainGoto, PlainReturn DEF Uid
  <1> QED  BY <1>1, <1>4, Basics, CallOnly

(* resumeCreate of the object that is there.                                *)
LEMMA ResumeEffect ==
    ASSUME IInv, volume # NoVolume, ResumeCreate(volume), UNCHANGED <<volume, issued>>
    PROVE  /\ call' \in [Threads -> Calls] /\ \A s \in Threads \ {"csi"} : call'[s] = call[s]
           /\ CallInv("csi")'
  <1>1. \/ Goto("csi", "copy", volume.uid) \/ Return("csi")
        \/ volume.phase = "Ready" /\ Goto("csi", "respond", volume.uid)
    BY DEF ResumeCreate
  <1>2. "copy" \in CallSteps \ Relying
    BY DEF CallSteps, Relying
  <1> QED  BY <1>1, <1>2, Basics, CallBasics, PlainGoto, PlainReturn, GotoRespond

(* Creating the object under a fresh UID keeps the invariant: nothing on    *)
(* disk, in a process or in a call has that UID.                            *)
LEMMA BeginCreateStep ==
    ASSUME IInv, BeginCreate
    PROVE  IInv'
  <1>0. "intent" \in CallSteps \ Relying /\ TypeOK
    BY DEF CallSteps, Relying, IInv
  <1>1. UNCHANGED <<disk, lock, pod, work, inventory, claim, pv, replied, asked, pending, faults>>
    BY Zenon DEF BeginCreate
  <1>2. /\ pv' \in BOOLEAN /\ pending' \in BOOLEAN /\ faults' \in 0..MaxFaults
        /\ asked' \in 0..MaxDeletes /\ PendingInv'
    BY <1>0, <1>1 DEF TypeOK, IInv, PendingInv
  <1>3. CASE /\ volume = NoVolume /\ issued < MaxUid
             /\ volume' = Intent(issued + 1) /\ issued' = issued + 1
             /\ Goto("csi", "intent", issued + 1)
    <2>1. issued + 1 \in Uids /\ issued + 1 \in 0..MaxUid /\ issued' \in 0..MaxUid
      BY <1>3, CallBasics, Basics DEF Uids
    <2>2. volume' \in Volumes /\ Creates
      <3>1. 0 \in 0..MaxPod
        BY Basics
      <3>2. Intent(issued + 1) \in Volumes
        BY <2>1, <3>1 DEF Intent, Volumes, Phases, Journal
      <3>3. /\ volume'.uid = issued + 1 /\ volume'.phase = "" /\ ~volume'.deleting
            /\ volume'.executor = 0 /\ volume'.receipt = 0 /\ volume'.operation = ""
            /\ volume'.cleanup = "None"
        BY <1>3, Zenon DEF Intent
      <3> QED  BY <1>3, <3>2, <3>3, Zenon DEF Creates
    <2>3. /\ call' \in [Threads -> Calls] /\ \A s \in Threads \ {"csi"} : call'[s] = call[s]
          /\ call'["csi"].step = "intent" /\ call'["csi"].uid = issued + 1
      BY <1>0, <1>3, <2>1, Basics, CallBasics, GotoEffect
    <2>4. CallInv("csi")'
      <3>1. call'["csi"].uid <= issued'
        BY <1>3, <2>3, CallBasics
      <3>2. call'["csi"].step \notin Relying
        BY <1>0, <2>3
      <3> QED  BY <3>1, <3>2, Basics, PlainCall
    <2> QED  BY <1>1, <1>2, <2>1, <2>2, <2>3, <2>4, Basics, CallStep DEF VolumeWrite
  <1>4. CASE /\ UNCHANGED <<volume, issued>>
             /\ \/ Goto("csi", "intent", volume.uid) \/ Return("csi")
                \/ volume # NoVolume /\ ResumeCreate(volume)
    <2>1. /\ call' \in [Threads -> Calls] /\ \A s \in Threads \ {"csi"} : call'[s] = call[s]
          /\ CallInv("csi")'
      BY <1>0, <1>4, Basics, CallBasics, PlainGoto, PlainReturn, ResumeEffect
    <2> QED  BY <1>1, <1>4, <2>1, Basics, CallOnly DEF cluster
  <1> QED  BY <1>3, <1>4, Zenon DEF BeginCreate, FreshPlacement

(* Recording the creation's intent keeps the invariant.                     *)
LEMMA RecordIntentStep ==
    ASSUME IInv, RecordCreationIntent
    PROVE  IInv'
  <1>0. "copy" \in CallSteps \ Relying /\ TypeOK /\ "Pending" \in Phases
    BY DEF CallSteps, Relying, IInv, Phases
  <1>1. UNCHANGED <<disk, lock, pod, work, cluster>> /\ issued' = issued
    BY DEF RecordCreationIntent, cluster
  <1>2. CASE /\ volume # NoVolume /\ Initializing
             /\ volume' = [volume EXCEPT !.phase = "Pending"] /\ Goto("csi", "copy", volume.uid)
    <2>1. volume \in Volumes /\ volume.phase = "" /\ ~volume.deleting
      BY <1>0, <1>2, VolumeFacts, Zenon DEF Initializing, UnstartedCreation
    <2>2. Pends /\ volume' \in Volumes
      BY <1>0, <1>1, <1>2, <2>1, WriteOnePhase, Zenon DEF Pends, KeepsUid
    <2>3. /\ call' \in [Threads -> Calls] /\ \A s \in Threads \ {"csi"} : call'[s] = call[s]
          /\ CallInv("csi")'
      BY <1>0, <1>1, <1>2, Basics, CallBasics, PlainGoto
    <2> QED  BY <1>1, <2>2, <2>3, Basics, CallAndVolume DEF VolumeWrite
  <1>3. CASE UNCHANGED volume /\ (Return("csi") \/ (volume # NoVolume /\ ResumeCreate(volume)))
    <2>1. /\ call' \in [Threads -> Calls] /\ \A s \in Threads \ {"csi"} : call'[s] = call[s]
          /\ CallInv("csi")'
      BY <1>1, <1>3, Basics, PlainReturn, ResumeEffect
    <2> QED  BY <1>1, <1>3, <2>1, Basics, CallOnly
  <1> QED  BY <1>2, <1>3 DEF RecordCreationIntent, Same

(* A call that has seen the receipt of the creation.                        *)
LEMMA GotoReceived ==
    ASSUME IInv, NEW step \in {"complete", "finalize"}, issued' = issued,
           Goto("csi", step, volume.uid), volume'.uid = volume.uid, ValidCreationReceipt'
    PROVE  /\ call' \in [Threads -> Calls] /\ \A s \in Threads \ {"csi"} : call'[s] = call[s]
           /\ CallInv("csi")'
  <1>1. step \in CallSteps
    BY Zenon DEF CallSteps
  <1>2. /\ call' \in [Threads -> Calls] /\ \A s \in Threads \ {"csi"} : call'[s] = call[s]
        /\ call'["csi"].step = step /\ call'["csi"].uid = volume.uid
    BY <1>1, Basics, CallBasics, GotoEffect
  <1> QED  BY <1>2, CallBasics DEF CallInv

(* Binding the creation to the Pod that runs now keeps the invariant.       *)
LEMMA PrepareStep ==
    ASSUME IInv, PrepareCreation
    PROVE  IInv'
  <1>0. "await" \in CallSteps \ Relying /\ TypeOK /\ VolumeInv /\ pod \in Pods
    BY DEF CallSteps, Relying, IInv, TypeOK
  <1>1. UNCHANGED <<disk, lock, pod, work, cluster>> /\ issued' = issued
    BY DEF PrepareCreation, cluster
  <1>2. CASE /\ UNCHANGED volume
             /\ \/ ValidReadyCreationHistory /\ Goto("csi", "complete", volume.uid)
                \/ Goto("csi", "await", volume.uid) \/ Return("csi")
    <2>1. ValidReadyCreationHistory => ValidCreationReceipt'
      BY <1>2, Zenon DEF ValidReadyCreationHistory, ValidCreationReceipt
    <2>2. /\ call' \in [Threads -> Calls] /\ \A s \in Threads \ {"csi"} : call'[s] = call[s]
          /\ CallInv("csi")'
      BY <1>0, <1>1, <1>2, <2>1, Basics, CallBasics, PlainGoto, PlainReturn, GotoReceived
    <2> QED  BY <1>1, <1>2, <2>2, Basics, CallOnly
  <1>3. CASE /\ volume # NoVolume
             /\ volume.phase = "Pending" \/ RebindCreation
             /\ BindCreation /\ Goto("csi", "await", volume.uid)
    <2>1. /\ volume \in Volumes /\ volume.phase \in {"Pending", "NodeCreating"}
          /\ volume.receipt = 0
      BY <1>0, <1>3, VolumeFacts, Zenon DEF RebindCreation, VolumeInv
    <2>2. Binds /\ volume' \in Volumes
      BY <1>0, <1>1, <1>3, <2>1, WriteBinding, Basics DEF Binds, KeepsUid
    <2>3. /\ call' \in [Threads -> Calls] /\ \A s \in Threads \ {"csi"} : call'[s] = call[s]
          /\ CallInv("csi")'
      BY <1>0, <1>1, <1>3, Basics, CallBasics, PlainGoto
    <2> QED  BY <1>1, <2>2, <2>3, Basics, CallAndVolume DEF VolumeWrite
  <1> QED  BY <1>2, <1>3 DEF PrepareCreation, Same

(* Waiting for the receipt, and the step after it, keep the invariant.      *)
LEMMA AwaitStep ==
    ASSUME IInv, AwaitReceipt \/ FinalizeCreate
    PROVE  IInv'
  <1>1. UNCHANGED <<volume, disk, lock, pod, work, cluster>> /\ issued' = issued
    BY DEF AwaitReceipt, FinalizeCreate, cluster
  <1>2. \/ ValidCreationReceipt /\ Goto("csi", "complete", volume.uid)
        \/ Return("csi")
        \/ /\ volume # NoVolume /\ volume.phase = "Ready" /\ Goto("csi", "respond", volume.uid)
    BY Zenon DEF AwaitReceipt, FinalizeCreate, Same, ValidReadyCreationHistory
  <1>3. ValidCreationReceipt => ValidCreationReceipt'
    BY <1>1 DEF ValidCreationReceipt
  <1>4. /\ call' \in [Threads -> Calls] /\ \A s \in Threads \ {"csi"} : call'[s] = call[s]
        /\ CallInv("csi")'
    BY <1>1, <1>2, <1>3, Basics, PlainReturn, GotoReceived, GotoRespond
  <1> QED  BY <1>1, <1>4, Basics, CallOnly

(* Turning the object Ready keeps the invariant: the receipt seen earlier   *)
(* is still valid, or the object is another one.                            *)
LEMMA CompleteStep ==
    ASSUME IInv, CompleteCreate
    PROVE  IInv'
  <1>0. TypeOK /\ VolumeInv /\ CallInv("csi") /\ "Ready" \in Phases
    BY Basics DEF IInv, Phases
  <1>1. UNCHANGED <<disk, lock, pod, work, cluster>> /\ issued' = issued
    BY DEF CompleteCreate, cluster
  <1>2. CASE /\ Same("csi") /\ Completable /\ call["csi"].step = "complete"
             /\ volume' = [volume EXCEPT !.phase = "Ready"]
             /\ Goto("csi", "finalize", volume.uid)
    <2>1. volume \in Volumes /\ ValidCreationReceipt /\ volume # NoVolume
      BY <1>0, <1>2, VolumeFacts DEF CallInv, Same
    <2>2. volume.phase \in {"NodeCreating", "Ready"} /\ volume.executor # 0
          /\ volume.receipt = volume.executor
      BY <1>0, <1>2, <2>1, Zenon DEF Completable, ValidCreationReceipt, VolumeInv
    <2>3. Completes /\ volume' \in Volumes
      BY <1>0, <1>1, <1>2, <2>1, <2>2, WriteOnePhase DEF Completes, KeepsUid
    <2>4. ValidCreationReceipt' /\ volume'.uid = volume.uid
      BY <2>2, <2>3 DEF Completes, KeepsUid, KeepsCreation, ValidCreationReceipt
    <2>5. /\ call' \in [Threads -> Calls] /\ \A s \in Threads \ {"csi"} : call'[s] = call[s]
          /\ CallInv("csi")'
      BY <1>1, <1>2, <2>4, Basics, GotoReceived
    <2> QED  BY <1>1, <2>3, <2>5, Basics, CallAndVolume DEF VolumeWrite
  <1>3. CASE UNCHANGED volume /\ Return("csi")
    <2>1. /\ call' \in [Threads -> Calls] /\ \A s \in Threads \ {"csi"} : call'[s] = call[s]
          /\ CallInv("csi")'
      BY <1>1, <1>3, Basics, PlainReturn
    <2> QED  BY <1>1, <1>3, <2>1, Basics, CallOnly
  <1> QED  BY <1>2, <1>3 DEF CompleteCreate, At

(* The answer to CreateVolume keeps the invariant.                          *)
LEMMA ResponseStep ==
    ASSUME IInv, CreateVolumeResponse
    PROVE  IInv'
  <1>0. TypeOK /\ VolumeInv /\ RepliedInv /\ PendingInv /\ CallInv("csi")
    BY Basics DEF IInv
  <1>1. /\ UNCHANGED <<volume, issued, disk, lock, pod, work, inventory, claim, pv, asked, pending,
                       faults>>
        /\ Return("csi") /\ call["csi"].step = "respond"
        /\ replied' \in {replied, replied \cup {call["csi"].uid}}
    BY DEF CreateVolumeResponse, At, Uid
  <1>2. call["csi"].uid \in Uids
    BY <1>0, <1>1, CallBasics, Basics DEF CallInv, Uids
  <1>3. /\ call' \in [Threads -> Calls] /\ \A s \in Threads \ {"csi"} : call'[s] = call[s]
        /\ CallInv("csi")'
    BY <1>1, Basics, PlainReturn
  <1>4. TypeOK'
    BY <1>0, <1>1, <1>2, <1>3 DEF TypeOK
  <1>5. RepliedInv' /\ PendingInv'
    BY <1>0, <1>1 DEF RepliedInv, PendingInv, CallInv, Same, Uid
  <1>6. VolumeWrite
    BY <1>1 DEF VolumeWrite
  <1>7. \A u \in Uids : DiskInv(u)'
    BY <1>1, <1>6, DiskKept
  <1>8. \A p \in Pods : WorkInv(p)'
    BY <1>1, <1>6, WorkKept
  <1>9. \A s \in Threads : CallInv(s)'
    BY <1>1, <1>3, <1>6, CallKept
  <1> QED  BY <1>4, <1>5, <1>6, <1>7, <1>8, <1>9, VolumeKept DEF IInv

(* The start of DeleteVolume keeps the invariant.                           *)
LEMMA DeleteStep ==
    ASSUME IInv, DeleteVolume
    PROVE  IInv'
  <1>0. TypeOK /\ PendingInv /\ "delete" \in CallSteps /\ asked \in 0..MaxDeletes
    BY DEF IInv, CallSteps, TypeOK
  <1>1. /\ UNCHANGED <<volume, issued, disk, lock, pod, work, inventory, claim, pv, replied, faults>>
        /\ Goto("csi", "delete", 0) /\ pending' = TRUE
        /\ pending \/ asked < MaxDeletes
        /\ asked' = IF pending THEN asked ELSE asked + 1
    BY DEF DeleteVolume
  <1>2. asked' > 0 /\ asked' \in 0..MaxDeletes /\ asked' \in {asked, asked + 1}
    BY <1>0, <1>1, Basics DEF PendingInv
  <1>3. /\ call' \in [Threads -> Calls] /\ \A s \in Threads \ {"csi"} : call'[s] = call[s]
        /\ call'["csi"].step = "delete" /\ call'["csi"].uid = 0
    BY <1>0, <1>1, Basics, CallBasics, GotoEffect
  <1>4. CallInv("csi")'
    BY <1>1, <1>2, <1>3, CallBasics DEF CallInv
  <1>5. /\ volume' \in Volumes \cup {NoVolume} /\ issued' \in 0..MaxUid
        /\ pv' \in BOOLEAN /\ pending' \in BOOLEAN /\ faults' \in 0..MaxFaults
    BY <1>0, <1>1 DEF TypeOK
  <1>6. VolumeWrite /\ PendingInv'
    BY <1>1, <1>2 DEF VolumeWrite, PendingInv
  <1> QED  BY <1>1, <1>2, <1>3, <1>4, <1>5, <1>6, Basics, CallStep

(* A finished deletion.                                                     *)
LEMMA FinishEffect ==
    ASSUME IInv, NEW t \in Threads, Finish(t), issued' = issued, asked' = asked
    PROVE  /\ call' \in [Threads -> Calls] /\ \A s \in Threads \ {t} : call'[s] = call[s]
           /\ CallInv(t)' /\ pending' \in BOOLEAN /\ pv' \in BOOLEAN /\ PendingInv'
  <1>1. Return(t)
    BY DEF Finish
  <1>2. pending \in BOOLEAN /\ pv \in BOOLEAN /\ PendingInv
    BY DEF IInv, TypeOK
  <1>3. pending' \in BOOLEAN /\ pv' \in BOOLEAN /\ PendingInv'
    <2>1. CASE pending' = FALSE /\ pv' = FALSE
      BY <2>1, Zenon DEF PendingInv
    <2>2. CASE UNCHANGED <<pending, pv>>
      BY <1>2, <2>2 DEF PendingInv
    <2> QED  BY <2>1, <2>2, Zenon DEF Finish
  <1> QED  BY <1>1, <1>3, PlainReturn

(* Judging whether the volume may be deleted keeps the invariant.           *)
LEMMA DeletableStep ==
    ASSUME IInv, DeletableState
    PROVE  IInv'
  <1>0. TypeOK /\ PendingInv /\ CallInv("csi")
    BY Basics DEF IInv
  <1>1. /\ UNCHANGED <<volume, issued, disk, lock, pod, work, inventory, claim, replied, asked, faults>>
        /\ call["csi"].step = "delete"
    BY DEF DeletableState, At
  <1>2. /\ volume' \in Volumes \cup {NoVolume} /\ issued' \in 0..MaxUid
        /\ asked' \in 0..MaxDeletes /\ faults' \in 0..MaxFaults /\ VolumeWrite
    BY <1>0, <1>1 DEF TypeOK, VolumeWrite
  <1>3. CASE Finish("csi")
    <2>1. /\ call' \in [Threads -> Calls] /\ \A s \in Threads \ {"csi"} : call'[s] = call[s]
          /\ CallInv("csi")' /\ pending' \in BOOLEAN /\ pv' \in BOOLEAN /\ PendingInv'
      BY <1>1, <1>3, Basics, FinishEffect
    <2> QED  BY <1>1, <1>2, <2>1, Basics, CallStep
  <1>4. CASE /\ \E step \in {"cancel", "fence"} : Goto("csi", step, volume.uid)
             /\ UNCHANGED <<pending, pv>>
    <2>1. PICK step \in {"cancel", "fence"} : Goto("csi", step, volume.uid)
      BY <1>4
    <2>2. step \in CallSteps
      BY Zenon DEF CallSteps
    <2>3. /\ call' \in [Threads -> Calls] /\ \A s \in Threads \ {"csi"} : call'[s] = call[s]
          /\ call'["csi"].step = step /\ call'["csi"].uid = volume.uid
      BY <2>1, <2>2, Basics, CallBasics, GotoEffect
    <2>4. CallInv("csi")'
      <3>1. asked' > 0 /\ volume.uid <= issued'
        BY <1>0, <1>1, CallBasics DEF CallInv
      <3> QED  BY <2>3, <3>1 DEF CallInv
    <2> QED  BY <1>1, <1>4, <2>3, <2>4, Basics, CallOnly DEF cluster
  <1> QED  BY <1>3, <1>4 DEF DeletableState

(* A call that has written, or read, the deletion fence.                    *)
LEMMA GotoFenced ==
    ASSUME IInv, NEW t \in Threads, issued' = issued, NEW step \in {"settle", "remove", "release"},
           Goto(t, step, call[t].uid),
           \/ volume' = NoVolume
           \/ volume'.phase = "Deleting" /\ (step # "settle" => volume'.cleanup = "Completed")
    PROVE  /\ call' \in [Threads -> Calls] /\ \A s \in Threads \ {t} : call'[s] = call[s]
           /\ CallInv(t)'
  <1>1. step \in CallSteps
    BY Zenon DEF CallSteps
  <1>2. /\ call' \in [Threads -> Calls] /\ \A s \in Threads \ {t} : call'[s] = call[s]
        /\ call'[t].step = step /\ call'[t].uid = call[t].uid
    BY <1>1, CallBasics, GotoEffect
  <1>3. call[t].uid <= issued'
    BY CallBasics
  <1> QED  BY <1>2, <1>3 DEF CallInv, Same

(* Fencing the object for deletion keeps the invariant.                     *)
LEMMA FenceStep ==
    ASSUME IInv, BeginDelete
    PROVE  IInv'
  <1>0. TypeOK /\ VolumeInv /\ CallInv("csi")
    BY Basics DEF IInv
  <1>1. UNCHANGED <<disk, lock, pod, work, cluster>> /\ issued' = issued
    BY DEF BeginDelete, cluster
  <1>2. CASE /\ Same("csi") /\ DeletionAdmitted /\ call["csi"].step = "fence"
             /\ volume' = [volume EXCEPT !.phase = "Deleting", !.operation = "delete"]
             /\ Goto("csi", "settle", volume.uid)
    <2>1. volume \in Volumes /\ volume # NoVolume /\ volume.uid = call["csi"].uid /\ asked > 0
      BY <1>0, <1>2, VolumeFacts DEF CallInv, Same, Uid
    <2>2. /\ volume' \in Volumes /\ volume'.uid = volume.uid /\ volume'.phase = "Deleting"
          /\ volume'.operation = "delete" /\ volume'.cleanup = volume.cleanup
          /\ volume'.deleting = volume.deleting /\ KeepsCreation
      BY <1>2, <2>1, WriteFence
    <2>3. Fences
      BY <1>1, <1>2, <2>1, <2>2, Zenon DEF Fences, KeepsUid, DeletionAdmitted
    <2>4. /\ call' \in [Threads -> Calls] /\ \A s \in Threads \ {"csi"} : call'[s] = call[s]
          /\ CallInv("csi")'
      BY <1>1, <1>2, <2>1, <2>2, Basics, GotoFenced
    <2> QED  BY <1>1, <2>2, <2>3, <2>4, Basics, CallAndVolume DEF VolumeWrite
  <1>3. CASE UNCHANGED volume /\ Return("csi")
    <2>1. /\ call' \in [Threads -> Calls] /\ \A s \in Threads \ {"csi"} : call'[s] = call[s]
          /\ CallInv("csi")'
      BY <1>1, <1>3, Basics, PlainReturn
    <2> QED  BY <1>1, <1>3, <2>1, Basics, CallOnly
  <1> QED  BY <1>2, <1>3 DEF BeginDelete, At

(* A step of the cleanup journal keeps the invariant.                       *)
LEMMA AdvanceStep ==
    ASSUME IInv, NEW t \in Threads, Advance(t)
    PROVE  IInv'
  <1>0. TypeOK /\ "unstarted" \in CallSteps \ Relying /\ "begin cancel" \in CallSteps \ Relying
    BY DEF IInv, CallSteps, Relying
  <1>1. UNCHANGED <<volume, issued, disk, lock, pod, work, inventory, claim, replied, asked, faults>>
    BY Zenon DEF Advance
  <1>2. /\ volume' \in Volumes \cup {NoVolume} /\ issued' \in 0..MaxUid
        /\ asked' \in 0..MaxDeletes /\ faults' \in 0..MaxFaults /\ VolumeWrite
    BY <1>0, <1>1, Zenon DEF TypeOK, VolumeWrite
  <1>3. CASE Finish(t)
    <2>1. /\ call' \in [Threads -> Calls] /\ \A s \in Threads \ {t} : call'[s] = call[s]
          /\ CallInv(t)' /\ pending' \in BOOLEAN /\ pv' \in BOOLEAN /\ PendingInv'
      BY <1>1, <1>3, FinishEffect
    <2> QED  BY <1>1, <1>2, <2>1, CallStep
  <1>4. CASE /\ UNCHANGED <<pending, pv>>
             /\ \/ Goto(t, "unstarted", call[t].uid) \/ Goto(t, "begin cancel", call[t].uid)
                \/ Return(t)
    <2>1. /\ call' \in [Threads -> Calls] /\ \A s \in Threads \ {t} : call'[s] = call[s]
          /\ CallInv(t)'
      BY <1>0, <1>1, <1>4, CallBasics, PlainGoto, PlainReturn, Zenon
    <2> QED  BY <1>1, <1>4, <2>1, CallOnly, Zenon DEF cluster
  <1> QED  BY <1>3, <1>4, Zenon DEF Advance, Uid

(* Cancelling a creation that has no executor keeps the invariant.          *)
LEMMA CancelUnstartedStep ==
    ASSUME IInv, NEW t \in Threads, CancelUnstartedCreation(t)
    PROVE  IInv'
  <1>0. TypeOK /\ VolumeInv /\ "unprotect" \in CallSteps \ Relying
    BY DEF IInv, CallSteps, Relying
  <1>1. UNCHANGED <<disk, lock, pod, work, cluster>> /\ issued' = issued
    BY DEF CancelUnstartedCreation, cluster
  <1>2. CASE /\ volume # NoVolume /\ UnstartedCreation
             /\ volume' = [volume EXCEPT !.deleting = TRUE] /\ Goto(t, "unprotect", call[t].uid)
    <2>1. volume \in Volumes /\ volume.phase = ""
      BY <1>0, <1>2, VolumeFacts, Zenon DEF UnstartedCreation
    <2>2. Marks /\ volume' \in Volumes
      BY <1>1, <1>2, <2>1, WriteDeleting, Zenon DEF Marks, KeepsUid
    <2>3. /\ call' \in [Threads -> Calls] /\ \A s \in Threads \ {t} : call'[s] = call[s]
          /\ CallInv(t)'
      BY <1>0, <1>1, <1>2, CallBasics, PlainGoto
    <2> QED  BY <1>1, <2>2, <2>3, CallAndVolume DEF VolumeWrite
  <1>3. CASE UNCHANGED volume /\ Return(t)
    <2>1. /\ call' \in [Threads -> Calls] /\ \A s \in Threads \ {t} : call'[s] = call[s]
          /\ CallInv(t)'
      BY <1>1, <1>3, PlainReturn
    <2> QED  BY <1>1, <1>3, <2>1, CallOnly
  <1> QED  BY <1>2, <1>3 DEF CancelUnstartedCreation, Same, Uid

(* The two writes that take the finalizer away.                             *)
LEMMA FinalizerStep ==
    ASSUME IInv, NEW t \in Threads, FinalizeUnstartedCreation(t) \/ RemoveVolumeFinalizer(t)
    PROVE  IInv'
  <1>0. TypeOK /\ VolumeInv /\ CallInv(t)
    BY DEF IInv
  <1>1. UNCHANGED <<issued, disk, lock, pod, work, inventory, claim, replied, asked, faults>>
    BY DEF FinalizeUnstartedCreation, RemoveVolumeFinalizer
  <1>2. issued' \in 0..MaxUid /\ asked' \in 0..MaxDeletes /\ faults' \in 0..MaxFaults
    BY <1>0, <1>1 DEF TypeOK
  <1>3. CASE /\ volume' = NoVolume /\ Finish(t)
             /\ volume = NoVolume \/ volume.phase = "" \/ volume.cleanup = "Completed"
    <2>1. VolumeWrite
      BY <1>1, <1>3, Zenon DEF VolumeWrite, Removes
    <2>2. /\ call' \in [Threads -> Calls] /\ \A s \in Threads \ {t} : call'[s] = call[s]
          /\ CallInv(t)' /\ pending' \in BOOLEAN /\ pv' \in BOOLEAN /\ PendingInv'
      BY <1>1, <1>3, FinishEffect, Zenon
    <2> QED  BY <1>1, <1>2, <1>3, <2>1, <2>2, CallStep, Zenon
  <1>4. CASE Return(t) /\ UNCHANGED <<volume, pending, pv>>
    <2>1. /\ call' \in [Threads -> Calls] /\ \A s \in Threads \ {t} : call'[s] = call[s]
          /\ CallInv(t)'
      BY <1>1, <1>4, PlainReturn
    <2> QED  BY <1>1, <1>4, <2>1, CallOnly DEF cluster
  <1>5. FinalizeUnstartedCreation(t) => \/ Return(t) /\ UNCHANGED <<volume, pending, pv>>
                                        \/ /\ volume' = NoVolume /\ Finish(t)
                                           /\ volume = NoVolume \/ volume.phase = ""
    BY Zenon DEF FinalizeUnstartedCreation, UnstartedCreation
  <1>6. RemoveVolumeFinalizer(t) => \/ Return(t) /\ UNCHANGED <<volume, pending, pv>>
                                    \/ /\ volume' = NoVolume /\ Finish(t)
                                       /\ volume = NoVolume \/ volume.cleanup = "Completed"
    BY <1>0 DEF RemoveVolumeFinalizer, CallInv, At
  <1> QED  BY <1>3, <1>4, <1>5, <1>6, Zenon

(* Fencing an unfinished creation keeps the invariant.                      *)
LEMMA CancellationStep ==
    ASSUME IInv, NEW t \in Threads, BeginCreationCancellation(t)
    PROVE  IInv'
  <1>0. TypeOK /\ VolumeInv
    BY DEF IInv
  <1>1. UNCHANGED <<disk, lock, pod, work, cluster>> /\ issued' = issued
    BY Zenon DEF BeginCreationCancellation, cluster
  <1>2. CASE /\ volume # NoVolume
             /\ CancellableCreation \/ CancellingCreation
             /\ volume' = [volume EXCEPT !.phase = "Deleting", !.operation = "cancel"]
             /\ Goto(t, "settle", call[t].uid)
    <2>1. volume \in Volumes
      BY <1>0, <1>2, VolumeFacts
    <2>2. /\ volume' \in Volumes /\ volume'.uid = volume.uid /\ volume'.phase = "Deleting"
          /\ volume'.operation = "cancel" /\ volume'.cleanup = volume.cleanup
          /\ volume'.deleting = volume.deleting /\ KeepsCreation
      BY <1>2, <2>1, WriteFence
    <2>3. Fences
      BY <1>1, <1>2, <2>2, Zenon
        DEF Fences, KeepsUid, CancellableCreation, CancellingCreation
    <2>4. /\ call' \in [Threads -> Calls] /\ \A s \in Threads \ {t} : call'[s] = call[s]
          /\ CallInv(t)'
      BY <1>1, <1>2, <2>2, GotoFenced
    <2> QED  BY <1>1, <2>2, <2>3, <2>4, CallAndVolume DEF VolumeWrite
  <1>3. CASE UNCHANGED volume /\ Return(t)
    <2>1. /\ call' \in [Threads -> Calls] /\ \A s \in Threads \ {t} : call'[s] = call[s]
          /\ CallInv(t)'
      BY <1>1, <1>3, PlainReturn
    <2> QED  BY <1>1, <1>3, <2>1, CallOnly
  <1> QED  BY <1>2, <1>3, Zenon DEF BeginCreationCancellation, Same, Uid

(* Settling the cleanup keeps the invariant: the receipt of the reclaim is  *)
(* on disk.                                                                 *)
LEMMA SettleStep ==
    ASSUME IInv, NEW t \in Threads, Settle(t)
    PROVE  IInv'
  <1>0. TypeOK /\ VolumeInv /\ CallInv(t) /\ pod \in Pods
    BY DEF IInv, TypeOK
  <1>1. UNCHANGED <<disk, lock, pod, work, cluster>> /\ issued' = issued /\ asked' = asked
    BY DEF Settle, cluster
  <1>2. /\ call \in [Threads -> Calls] /\ call[t].step = "settle"
        /\ Same(t) => volume.phase = "Deleting" /\ volume # NoVolume
    BY <1>0 DEF Settle, At, TypeOK, CallInv, Same
  <1>3. CASE UNCHANGED volume /\ Return(t)
    <2>1. /\ call' \in [Threads -> Calls] /\ \A s \in Threads \ {t} : call'[s] = call[s]
          /\ CallInv(t)'
      BY <1>1, <1>3, PlainReturn
    <2> QED  BY <1>1, <1>3, <2>1, CallOnly
  <1>4. CASE Same(t) /\ volume.cleanup = "Completed" /\ UNCHANGED volume /\ Goto(t, "remove", call[t].uid)
    <2>1. /\ call' \in [Threads -> Calls] /\ \A s \in Threads \ {t} : call'[s] = call[s]
          /\ CallInv(t)'
      BY <1>1, <1>2, <1>4, GotoFenced
    <2> QED  BY <1>1, <1>4, <2>1, CallOnly
  <1>5. CASE /\ Same(t)
             /\ \/ /\ volume.cleanup = "None" /\ UNCHANGED call
                   /\ volume' = [volume EXCEPT !.cleanup = "Pending"]
                \/ /\ volume.cleanup \in {"Pending", "Running"} /\ Return(t)
                   /\ volume' = [volume EXCEPT !.cleanup = "Running", !.cleaner = pod]
                \/ /\ volume.cleanup = "Verifying" /\ UNCHANGED call
                   /\ volume' = [volume EXCEPT !.cleanup = "Completed"]
    <2>1. volume \in Volumes /\ pod \in 0..MaxPod /\ {"Pending", "Running", "Completed"} \subseteq Journal
      BY <1>0, <1>2, <1>5, VolumeFacts, Basics DEF Pods, Journal
    <2>2. Cleans /\ volume' \in Volumes
      BY <1>1, <1>2, <1>5, <2>1, WriteCleanup, Zenon DEF Cleans, KeepsUid
    <2>3. /\ call' \in [Threads -> Calls] /\ \A s \in Threads \ {t} : call'[s] = call[s]
          /\ CallInv(t)'
      <3>1. CASE UNCHANGED call
        BY <1>1, <1>2, <2>2, <3>1, CallKept DEF VolumeWrite
      <3>2. CASE Return(t)
        BY <1>1, <3>2, PlainReturn
      <3> QED  BY <1>5, <3>1, <3>2
    <2> QED  BY <1>1, <2>2, <2>3, CallAndVolume DEF VolumeWrite
  <1> QED  BY <1>3, <1>4, <1>5 DEF Settle, Uid

(* Removing the object keeps the invariant: its copy is gone.               *)
LEMMA RemoveStep ==
    ASSUME IInv, NEW t \in Threads, RemoveVolume(t)
    PROVE  IInv'
  <1>0. TypeOK /\ VolumeInv /\ CallInv(t)
    BY DEF IInv
  <1>1. UNCHANGED <<disk, lock, pod, work, cluster>> /\ issued' = issued
    BY DEF RemoveVolume, cluster
  <1>2. CASE volume = NoVolume /\ UNCHANGED volume /\ Goto(t, "release", call[t].uid)
    <2>1. /\ call' \in [Threads -> Calls] /\ \A s \in Threads \ {t} : call'[s] = call[s]
          /\ CallInv(t)'
      BY <1>1, <1>2, GotoFenced
    <2> QED  BY <1>1, <1>2, <2>1, CallOnly
  <1>3. CASE /\ Same(t) /\ volume' = [volume EXCEPT !.deleting = TRUE] /\ call[t].step = "remove"
             /\ Goto(t, "release", call[t].uid)
    <2>1. /\ volume \in Volumes /\ volume # NoVolume /\ volume.cleanup = "Completed"
          /\ volume.phase = "Deleting"
      BY <1>0, <1>3, VolumeFacts, Zenon DEF CallInv, Same, VolumeInv
    <2>2. Marks /\ volume' \in Volumes /\ volume'.phase = "Deleting" /\ volume'.cleanup = "Completed"
      BY <1>1, <1>3, <2>1, WriteDeleting DEF Marks, KeepsUid, KeepsFence
    <2>3. /\ call' \in [Threads -> Calls] /\ \A s \in Threads \ {t} : call'[s] = call[s]
          /\ CallInv(t)'
      BY <1>1, <1>3, <2>2, GotoFenced
    <2> QED  BY <1>1, <2>2, <2>3, CallAndVolume DEF VolumeWrite
  <1>4. CASE UNCHANGED volume /\ Return(t)
    <2>1. /\ call' \in [Threads -> Calls] /\ \A s \in Threads \ {t} : call'[s] = call[s]
          /\ CallInv(t)'
      BY <1>1, <1>4, PlainReturn
    <2> QED  BY <1>1, <1>4, <2>1, CallOnly
  <1> QED  BY <1>2, <1>3, <1>4 DEF RemoveVolume, At, Uid

(* The creation controller's reads keep the invariant.                      *)
LEMMA ControllerSteps ==
    ASSUME IInv, Reconcile \/ ClaimRetired
    PROVE  IInv'
  <1>0. "cancel" \in CallSteps \ Relying /\ "claim" \in CallSteps \ Relying
    BY DEF CallSteps, Relying
  <1>1. UNCHANGED <<volume, disk, lock, pod, work, cluster>> /\ issued' = issued
    BY DEF Reconcile, ClaimRetired, cluster
  <1>2. \/ Goto("gc", "cancel", volume.uid) \/ Goto("gc", "claim", volume.uid)
        \/ Goto("gc", "cancel", call["gc"].uid) \/ Return("gc")
    BY DEF Reconcile, ClaimRetired, Uid
  <1>3. /\ call' \in [Threads -> Calls] /\ \A s \in Threads \ {"gc"} : call'[s] = call[s]
        /\ CallInv("gc")'
    BY <1>0, <1>1, <1>2, Basics, CallBasics, PlainGoto, PlainReturn
  <1> QED  BY <1>1, <1>3, Basics, CallOnly

(* A call that fails or times out keeps the invariant.                      *)
LEMMA CallEndsStep ==
    ASSUME IInv, NEW t \in Threads, CallEnds(t)
    PROVE  IInv'
  <1>0. TypeOK /\ PendingInv
    BY DEF IInv
  <1>1. /\ UNCHANGED <<volume, issued, disk, lock, pod, work, inventory, claim, pv, replied, asked,
                       pending>>
        /\ Return(t) /\ Fault
    BY DEF CallEnds
  <1>2. /\ call' \in [Threads -> Calls] /\ \A s \in Threads \ {t} : call'[s] = call[s]
        /\ CallInv(t)'
    BY <1>1, PlainReturn
  <1>3. faults' \in 0..MaxFaults
    BY <1>0, <1>1, Basics DEF Fault, TypeOK
  <1>4. /\ volume' \in Volumes \cup {NoVolume} /\ issued' \in 0..MaxUid /\ pv' \in BOOLEAN
        /\ pending' \in BOOLEAN /\ asked' \in 0..MaxDeletes /\ VolumeWrite /\ PendingInv'
    BY <1>0, <1>1 DEF TypeOK, VolumeWrite, PendingInv
  <1> QED  BY <1>1, <1>2, <1>3, <1>4, CallStep

-----------------------------------------------------------------------------
(* The steps of the executors.                                              *)

(* A process that goes on changes its own record only.                      *)
LEMMA ProceedEffect ==
    ASSUME work \in [Pods -> Works], NEW p \in Pods, NEW step \in WorkSteps, Proceed(p, step)
    PROVE  /\ work' \in [Pods -> Works]
           /\ work'[p].step = step /\ work'[p].uid = work[p].uid
           /\ \A q \in Pods \ {p} : work'[q] = work[q]
  BY DEF Proceed, Works

(* A process that stops relies on nothing.                                  *)
LEMMA StopEffect ==
    ASSUME work \in [Pods -> Works], NEW p \in Pods, Stop(p)
    PROVE  /\ work' \in [Pods -> Works] /\ WorkInv(p)'
           /\ \A q \in Pods \ {p} : work'[q] = work[q]
  <1>1. work' \in [Pods -> Works] /\ work'[p] = Idle /\ \A q \in Pods \ {p} : work'[q] = work[q]
    BY Basics DEF Stop
  <1> QED  BY <1>1, Basics, Zenon DEF WorkInv

Start(p, step, u) == work' = [work EXCEPT ![p] = Step(step, u)]

(* A process that starts has the UID it was given.                          *)
LEMMA StartEffect ==
    ASSUME work \in [Pods -> Works], NEW p \in Pods, NEW step \in WorkSteps, NEW u \in 0..MaxUid,
           Start(p, step, u)
    PROVE  /\ work' \in [Pods -> Works]
           /\ work'[p].step = step /\ work'[p].uid = u
           /\ \A q \in Pods \ {p} : work'[q] = work[q]
  <1>1. Step(step, u) \in Works /\ Step(step, u).step = step /\ Step(step, u).uid = u
    BY DEF Step, Works
  <1> QED  BY <1>1 DEF Start

(* What another process may rely on after a write to a copy.                *)
Later(old, new) ==
    /\ old.receipt => new.receipt
    /\ new.intent = "none" => old.intent = "none" /\ (Served(old) => Served(new))

(* The process p writes, or takes or gives back the flock, only while no    *)
(* other process holds it.                                                  *)
Exclusive(p) == UNCHANGED <<disk, lock>> \/ lock \in {0, p}

(* What a process does under the flock, or without touching the disk,       *)
(* leaves what other processes rely on.                                     *)
LEMMA OtherWork ==
    ASSUME IInv, UNCHANGED <<volume, issued>>, NEW p \in Pods, Exclusive(p),
           \A u \in Uids : Later(disk[u], disk'[u]),
           NEW q \in Pods \ {p}, work'[q] = work[q]
    PROVE  WorkInv(q)'
  <1>0. WorkInv(q) /\ TypeOK
    BY DEF IInv
  <1>1. CASE UNCHANGED <<disk, lock>>
    BY <1>1, WorkKept DEF VolumeWrite
  <1>2. CASE lock \in {0, p} /\ work[q].step # "idle"
    <2>1. lock # q
      BY <1>2, Basics, Zenon
    <2>2. work[q].step \notin Holding
      BY <1>0, <1>2, <2>1, Zenon DEF WorkInv
    <2>3. work[q].uid \in Uids
      <3>1. issued \in 0..MaxUid
        BY <1>0, Zenon DEF TypeOK
      <3>2. work[q].uid \in 1..issued
        BY <1>0, <1>2, Zenon DEF WorkInv
      <3> QED  BY <3>1, <3>2, UidRange, Zenon
    <2>4. Later(disk[work[q].uid], disk'[work[q].uid])
      BY <2>3, Zenon
    <2>5. /\ work[q].step = "record" /\ disk'[work[q].uid].intent = "none" =>
                Served(disk'[work[q].uid])
          /\ work[q].step = "report" => disk'[work[q].uid].receipt
      BY <1>0, <1>2, <2>4 DEF WorkInv, Later
    <2> QED  BY <1>0, <1>2, <2>2, <2>5, Zenon DEF WorkInv, Holding, Served
  <1>3. CASE work[q].step = "idle"
    BY <1>3, Zenon DEF WorkInv
  <1> QED  BY <1>1, <1>2, <1>3 DEF Exclusive

(* A step of one process keeps the invariant if it keeps its own conjunct   *)
(* and the disk's.                                                          *)
LEMMA WorkStep ==
    ASSUME IInv, UNCHANGED <<volume, issued, pod, inventory, call, claim, pv, replied, asked, pending>>,
           faults' \in 0..MaxFaults, disk' \in [Uids -> Copies], lock' \in 0..MaxPod,
           NEW p \in Pods, work' \in [Pods -> Works], \A q \in Pods \ {p} : work'[q] = work[q],
           Exclusive(p), \A u \in Uids : Later(disk[u], disk'[u]),
           WorkInv(p)', \A u \in Uids : DiskInv(u)'
    PROVE  IInv'
  <1>0. TypeOK /\ PendingInv /\ VolumeWrite
    BY DEF IInv, VolumeWrite
  <1>1. TypeOK' /\ PendingInv'
    BY <1>0 DEF TypeOK, PendingInv
  <1>2. \A q \in Pods : WorkInv(q)'
    BY OtherWork
  <1>3. \A t \in Threads : CallInv(t)'
    BY <1>0, CallKept
  <1> QED  BY <1>0, <1>1, <1>2, <1>3, VolumeKept, RepliedKept DEF IInv

(* A process that goes on or stops, with or without the flock.              *)
LEMMA WorkOnly ==
    ASSUME IInv, UNCHANGED <<volume, disk, pod, call, cluster>>,
           NEW p \in Pods, work' \in [Pods -> Works], \A q \in Pods \ {p} : work'[q] = work[q],
           \/ lock' = lock \/ Unlock(p)
           \/ lock = 0 /\ lock' = p,
           WorkInv(p)'
    PROVE  IInv'
  <1>0. TypeOK
    BY DEF IInv
  <1>1. UNCHANGED <<volume, issued, pod, inventory, call, claim, pv, replied, asked, pending>>
        /\ faults' = faults
    BY DEF cluster
  <1>2. lock' \in 0..MaxPod /\ Exclusive(p)
    BY <1>0, Basics DEF TypeOK, Exclusive, Unlock, Pods
  <1>3. /\ disk' \in [Uids -> Copies] /\ faults' \in 0..MaxFaults
        /\ \A u \in Uids : Later(disk[u], disk'[u])
    BY <1>0, <1>1 DEF TypeOK, Later, Served
  <1>4. \A u \in Uids : DiskInv(u)'
    BY <1>1, DiskKept DEF VolumeWrite
  <1> QED  BY <1>1, <1>2, <1>3, <1>4, WorkStep

(* A write to the copy of the process that holds the flock.                 *)
LEMMA CopyWrite ==
    ASSUME IInv, UNCHANGED <<volume, pod, call, cluster>>, NEW p \in Pods, lock = p,
           lock' = lock \/ Unlock(p), NEW u \in Uids, u = work[p].uid,
           NEW copy \in Copies, Write(p, copy), Later(Copy(p), copy), DiskInv(u)',
           work' \in [Pods -> Works], \A q \in Pods \ {p} : work'[q] = work[q], WorkInv(p)'
    PROVE  IInv'
  <1>0. TypeOK
    BY DEF IInv
  <1>1. /\ UNCHANGED <<volume, issued, pod, inventory, call, claim, pv, replied, asked, pending>>
        /\ faults' = faults
    BY DEF cluster
  <1>2. lock' \in 0..MaxPod /\ Exclusive(p) /\ faults' \in 0..MaxFaults
    BY <1>0, <1>1, Basics DEF TypeOK, Exclusive, Unlock, Pods
  <1>3. /\ disk' \in [Uids -> Copies] /\ disk'[u] = copy
        /\ \A v \in Uids \ {u} : disk'[v] = disk[v]
    BY <1>0 DEF TypeOK, Write
  <1>4. \A v \in Uids : Later(disk[v], disk'[v])
    BY <1>3, Zenon DEF Later, Served, Copy
  <1>5. \A v \in Uids \ {u} : DiskInv(v)'
    <2> TAKE v \in Uids \ {u}
    <2>1. DiskInv(v) /\ disk'[v] = disk[v]
      BY <1>3, Zenon DEF IInv
    <2> QED  BY <1>1, <2>1, Zenon DEF DiskInv, Shape, Served
  <1> QED  BY <1>1, <1>2, <1>3, <1>4, <1>5, WorkStep, Zenon

(* What a process at work may rely on.                                      *)
LEMMA WorkBasics ==
    ASSUME IInv, NEW p \in Pods
    PROVE  /\ work \in [Pods -> Works] /\ issued \in Nat
           /\ work[p].step # "idle" =>
                 /\ work[p].uid \in Uids /\ work[p].uid \in 1..issued /\ Copy(p) \in Copies
                 /\ DiskInv(work[p].uid)
           /\ work[p].step \in Holding =>
                 /\ lock = p /\ volume.uid = work[p].uid /\ volume # NoVolume
                 /\ ~Copy(p).receipt
  <1>0. TypeOK /\ WorkInv(p)
    BY DEF IInv
  <1>1. issued \in Nat /\ work[p].step # "idle" => work[p].uid \in Uids /\ work[p].uid \in 1..issued
    <2>1. issued \in 0..MaxUid
      BY <1>0, Zenon DEF TypeOK
    <2>2. work[p].step # "idle" => work[p].uid \in 1..issued
      BY <1>0, Zenon DEF WorkInv
    <2>3. issued \in Nat
      BY <2>1, Basics
    <2> QED  BY <2>1, <2>2, <2>3, UidRange, Zenon
  <1>2. "idle" \notin Holding /\ issued \in Nat
    BY <1>0, Basics DEF Holding, TypeOK
  <1>3. work[p].step # "idle" => Copy(p) \in Copies /\ DiskInv(work[p].uid)
    BY <1>0, <1>1 DEF TypeOK, Copy, IInv
  <1>4. work[p].step \in Holding => /\ lock = p /\ volume.uid = work[p].uid /\ ~Copy(p).receipt
    BY <1>0, <1>2 DEF WorkInv, Copy
  <1>5. work[p].step \in Holding => volume # NoVolume
    BY <1>0, <1>1, <1>2, <1>4, VolumeFacts, Basics
  <1> QED  BY <1>0, <1>1, <1>2, <1>3, <1>4, <1>5 DEF TypeOK

(* A process that stops, with or without the flock, keeps the invariant.    *)
LEMMA StopsStep ==
    ASSUME IInv, UNCHANGED <<volume, disk, pod, call, cluster>>, NEW p \in Pods,
           Stop(p), lock' = lock \/ Unlock(p)
    PROVE  IInv'
  <1>1. work' \in [Pods -> Works] /\ WorkInv(p)' /\ \A q \in Pods \ {p} : work'[q] = work[q]
    BY WorkBasics, StopEffect
  <1> QED  BY <1>1, WorkOnly

(* Starting a creation or a reclaim keeps the invariant.                    *)
LEMMA StartStep ==
    ASSUME IInv, NEW p \in Pods, ExecuteCreate(p) \/ ExecuteReclaim(p)
    PROVE  IInv'
  <1>0. TypeOK /\ VolumeInv
    BY DEF IInv
  <1>1. UNCHANGED <<volume, disk, lock, pod, call, cluster>> /\ issued' = issued
    BY DEF ExecuteCreate, ExecuteReclaim, cluster
  <1>2. /\ volume # NoVolume /\ volume.uid \in 1..issued /\ volume.uid \in 0..MaxUid
    BY <1>0, VolumeFacts, Basics, CallBasics DEF ExecuteCreate, ExecuteReclaim
  <1>3. CASE ExecuteCreate(p)
    <2>1. /\ "create" \in WorkSteps /\ volume.phase = "NodeCreating"
          /\ Start(p, "create", volume.uid)
      BY <1>3 DEF ExecuteCreate, WorkSteps, Start
    <2>2. /\ work' \in [Pods -> Works] /\ work'[p].step = "create" /\ work'[p].uid = volume.uid
          /\ \A q \in Pods \ {p} : work'[q] = work[q]
      <3>1. work \in [Pods -> Works] /\ volume.uid \in 0..MaxUid
        BY <1>0, <1>2 DEF TypeOK
      <3> QED  BY <2>1, <3>1, StartEffect
    <2>3. work'[p].uid \in 1..issued' /\ volume'.phase = "NodeCreating"
      BY <1>1, <1>2, <2>1, <2>2
    <2>4. WorkInv(p)'
      BY <2>2, <2>3 DEF WorkInv, Holding, Reclaiming
    <2> QED  BY <1>1, <2>2, <2>4, WorkOnly
  <1>4. CASE ExecuteReclaim(p)
    <2>1. /\ "reclaim" \in WorkSteps /\ volume.phase = "Deleting"
          /\ Start(p, "reclaim", volume.uid)
      BY <1>4 DEF ExecuteReclaim, WorkSteps, Start, CleanupAuthority
    <2>2. /\ work' \in [Pods -> Works] /\ work'[p].step = "reclaim" /\ work'[p].uid = volume.uid
          /\ \A q \in Pods \ {p} : work'[q] = work[q]
      <3>1. work \in [Pods -> Works] /\ volume.uid \in 0..MaxUid
        BY <1>0, <1>2 DEF TypeOK
      <3> QED  BY <2>1, <3>1, StartEffect
    <2>3. work'[p].uid \in 1..issued' /\ volume'.phase = "Deleting"
      BY <1>1, <1>2, <2>1, <2>2
    <2>4. WorkInv(p)'
      BY <2>2, <2>3 DEF WorkInv, Holding, Reclaiming
    <2> QED  BY <1>1, <2>2, <2>4, WorkOnly, Zenon
  <1> QED  BY <1>3, <1>4

(* Taking the flock for a creation keeps the invariant: the object is read  *)
(* again under it.                                                          *)
LEMMA LockServingStep ==
    ASSUME IInv, NEW p \in Pods, LockServing(p)
    PROVE  IInv'
  <1>1. UNCHANGED <<volume, disk, pod, call, cluster>> /\ issued' = issued
    BY DEF LockServing, cluster
  <1>2. CASE CreationAuthority(p, work[p].uid)
    <2>1. /\ work[p].step = "create" /\ lock = 0 /\ lock' = p /\ Proceed(p, "serve")
          /\ volume.uid = work[p].uid /\ volume.phase = "NodeCreating" /\ "serve" \in WorkSteps
      BY <1>2 DEF LockServing, Doing, CreationAuthority, WorkSteps
    <2>2. /\ work' \in [Pods -> Works] /\ work'[p].step = "serve" /\ work'[p].uid = work[p].uid
          /\ \A q \in Pods \ {p} : work'[q] = work[q]
      BY <2>1, WorkBasics, ProceedEffect
    <2>3. disk[work[p].uid].intent = "none" /\ ~disk[work[p].uid].receipt /\ work[p].uid \in 1..issued
      BY <2>1, WorkBasics, Zenon DEF DiskInv, Shape
    <2>4. WorkInv(p)'
      BY <1>1, <2>1, <2>2, <2>3, Zenon DEF WorkInv, Reclaiming
    <2> QED  BY <1>1, <2>1, <2>2, <2>4, WorkOnly
  <1>3. CASE ~CreationAuthority(p, work[p].uid)
    BY <1>1, <1>3, StopsStep DEF LockServing
  <1> QED  BY <1>2, <1>3

(* Taking the flock for a reclaim keeps the invariant.                      *)
LEMMA LockReclaimStep ==
    ASSUME IInv, NEW p \in Pods, LockReclaim(p)
    PROVE  IInv'
  <1>1. /\ UNCHANGED <<volume, disk, pod, call, cluster>> /\ issued' = issued
        /\ work[p].step = "reclaim" /\ lock = 0
    BY DEF LockReclaim, cluster, Doing
  <1>2. CASE ~CleanupAuthority(p, work[p].uid)
    BY <1>1, <1>2, StopsStep DEF LockReclaim
  <1>3. CASE CleanupAuthority(p, work[p].uid) /\ Copy(p).receipt
    <2>1. Copy(p).at = {} /\ "report" \in WorkSteps
      BY <1>1, <1>3, WorkBasics, Zenon DEF DiskInv, Shape, Copy, WorkSteps
    <2>2. lock' = lock /\ Proceed(p, "report") /\ volume.phase = "Deleting"
      BY <1>3, <2>1 DEF LockReclaim, ReplayCreationCancellation, CleanupAuthority
    <2>3. /\ work' \in [Pods -> Works] /\ work'[p].step = "report" /\ work'[p].uid = work[p].uid
          /\ \A q \in Pods \ {p} : work'[q] = work[q]
      BY <2>1, <2>2, WorkBasics, ProceedEffect, Zenon
    <2>4. work[p].uid \in 1..issued
      BY <1>1, WorkBasics
    <2>5. WorkInv(p)'
      BY <1>1, <1>3, <2>2, <2>3, <2>4 DEF WorkInv, Holding, Copy
    <2> QED  BY <1>1, <2>2, <2>3, <2>5, WorkOnly
  <1>4. CASE CleanupAuthority(p, work[p].uid) /\ ~Copy(p).receipt
    <2>1. /\ lock' = p /\ Proceed(p, "prepare") /\ volume.phase = "Deleting"
          /\ volume.uid = work[p].uid /\ "prepare" \in WorkSteps
      BY <1>4 DEF LockReclaim, CleanupAuthority, WorkSteps
    <2>2. /\ work' \in [Pods -> Works] /\ work'[p].step = "prepare" /\ work'[p].uid = work[p].uid
          /\ \A q \in Pods \ {p} : work'[q] = work[q]
      BY <2>1, WorkBasics, ProceedEffect
    <2>3. work[p].uid \in 1..issued
      BY <1>1, WorkBasics
    <2>4. WorkInv(p)'
      BY <1>1, <1>4, <2>1, <2>2, <2>3, Zenon DEF WorkInv, Copy
    <2> QED  BY <1>1, <2>1, <2>2, <2>4, WorkOnly, Zenon
  <1> QED  BY <1>2, <1>3, <1>4

(* One durable step of ensureServing keeps the order of the directories.    *)
LEMMA ServingStepShape ==
    ASSUME NEW copy \in Copies, Shape(copy), ~copy.receipt, copy.intent = "none",
           "serving" \notin copy.at
    PROVE  /\ ServingStep(copy) \in Copies /\ Shape(ServingStep(copy))
           /\ ~ServingStep(copy).receipt /\ ServingStep(copy).intent = "none"
  <1>1. /\ copy.at \in {{}, {"stage"}}
        /\ copy.placed => copy.marker /\ copy.at # {}
        /\ copy.at # {} => copy.marker
    BY DEF Shape
  <1>2. CASE ~copy.marker
    <2>1. ServingStep(copy) = [copy EXCEPT !.marker = TRUE]
      BY <1>2 DEF ServingStep
    <2>2. /\ ServingStep(copy) \in Copies /\ ServingStep(copy).marker
          /\ ServingStep(copy).placed = copy.placed /\ ServingStep(copy).at = copy.at
          /\ ServingStep(copy).intent = copy.intent /\ ServingStep(copy).receipt = copy.receipt
      BY <2>1, Zenon DEF Copies
    <2> QED  BY <1>1, <1>2, <2>2 DEF Shape
  <1>3. CASE copy.marker /\ ~copy.placed /\ "stage" \notin copy.at
    <2>1. ServingStep(copy) = [copy EXCEPT !.at = @ \cup {"stage"}] /\ copy.at = {}
      BY <1>1, <1>3 DEF ServingStep
    <2>2. /\ ServingStep(copy) \in Copies /\ ServingStep(copy).at = {"stage"}
          /\ ServingStep(copy).placed = copy.placed /\ ServingStep(copy).marker = copy.marker
          /\ ServingStep(copy).intent = copy.intent /\ ServingStep(copy).receipt = copy.receipt
      BY <2>1 DEF Copies, Places
    <2> QED  BY <1>3, <2>2 DEF Shape
  <1>4. CASE copy.marker /\ ~copy.placed /\ "stage" \in copy.at
    <2>1. ServingStep(copy) = [copy EXCEPT !.placed = TRUE] /\ copy.at = {"stage"}
      BY <1>1, <1>4 DEF ServingStep
    <2>2. /\ ServingStep(copy) \in Copies /\ ServingStep(copy).at = {"stage"}
          /\ ServingStep(copy).placed /\ ServingStep(copy).marker = copy.marker
          /\ ServingStep(copy).intent = copy.intent /\ ServingStep(copy).receipt = copy.receipt
      BY <2>1, Zenon DEF Copies, Places
    <2> QED  BY <1>4, <2>2 DEF Shape
  <1>5. CASE copy.marker /\ copy.placed
    <2>1. ServingStep(copy) = [copy EXCEPT !.at = (@ \ {"stage"}) \cup {"serving"}]
          /\ copy.at = {"stage"}
      BY <1>1, <1>5 DEF ServingStep
    <2>2. /\ ServingStep(copy) \in Copies /\ ServingStep(copy).at = {"serving"}
          /\ ServingStep(copy).placed = copy.placed /\ ServingStep(copy).marker = copy.marker
          /\ ServingStep(copy).intent = copy.intent /\ ServingStep(copy).receipt = copy.receipt
      BY <2>1 DEF Copies, Places
    <2> QED  BY <1>5, <2>2 DEF Shape
  <1> QED  BY <1>2, <1>3, <1>4, <1>5 DEF Copies

(* A durable step of a creation keeps the invariant.                        *)
LEMMA EnsureServingStep ==
    ASSUME IInv, NEW p \in Pods, EnsureServing(p)
    PROVE  IInv'
  <1>0. WorkInv(p) /\ TypeOK
    BY DEF IInv
  <1>1. /\ UNCHANGED <<volume, pod, call, cluster>> /\ issued' = issued
        /\ work[p].step = "serve" /\ work[p].step \in Holding
    BY DEF EnsureServing, cluster, Doing, Holding
  <1>2. /\ work \in [Pods -> Works] /\ issued \in Nat /\ work[p].uid \in Uids
        /\ work[p].uid \in 1..issued /\ Copy(p) \in Copies /\ DiskInv(work[p].uid)
        /\ lock = p /\ volume.uid = work[p].uid /\ ~Copy(p).receipt /\ Copy(p).intent = "none"
        /\ volume.phase \in {"NodeCreating", "Ready", "Deleting"}
    BY <1>0, <1>1, WorkBasics, Zenon DEF WorkInv, Copy
  <1>3. CASE Stop(p) /\ Unlock(p) /\ UNCHANGED disk
    BY <1>1, <1>3, StopsStep
  <1>4. CASE Proceed(p, "digest") /\ Unlock(p) /\ UNCHANGED disk
    <2>1. /\ work' \in [Pods -> Works] /\ work'[p].step = "digest" /\ work'[p].uid = work[p].uid
          /\ \A q \in Pods \ {p} : work'[q] = work[q]
      <3>1. "digest" \in WorkSteps
        BY DEF WorkSteps
      <3> QED  BY <1>2, <1>4, <3>1, ProceedEffect
    <2>2. WorkInv(p)'
      BY <1>1, <1>2, <2>1, Zenon DEF WorkInv, Holding, Reclaiming
    <2> QED  BY <1>1, <1>4, <2>1, <2>2, WorkOnly
  <1>5. CASE "serving" \notin Copy(p).at /\ Write(p, ServingStep(Copy(p))) /\ UNCHANGED <<work, lock>>
    <2>1. PICK copy \in Copies : copy = ServingStep(Copy(p)) /\ Shape(copy) /\ ~copy.receipt
                                 /\ copy.intent = "none" /\ Write(p, copy)
      <3>1. Shape(Copy(p))
        BY <1>2, Zenon DEF DiskInv, Copy
      <3> QED  BY <1>2, <1>5, <3>1, ServingStepShape, Zenon
    <2>2. PICK u \in Uids : u = work[p].uid
      BY <1>2
    <2>3. disk'[u] = copy
      BY <1>0, <2>1, <2>2 DEF Write, TypeOK
    <2>4. ~Served(Copy(p)) /\ Later(Copy(p), copy)
      BY <1>2, <1>5, <2>1, Zenon DEF Served, Later
    <2>5. DiskInv(u)'
      <3>1. /\ volume'.uid = u /\ volume' = volume /\ issued' = issued /\ u \in 1..issued
            /\ Copy(p) = disk[u] /\ DiskInv(u)
        BY <1>1, <1>2, <2>2, Zenon DEF Copy
      <3>2. /\ volume.phase \in {"NodeCreating", "Ready"} => volume.receipt = 0
            /\ volume.operation # "delete" /\ volume.cleanup \notin {"Verifying", "Completed"}
        BY <1>2, <2>2, <2>4, <3>1, Zenon DEF DiskInv
      <3>3. Shape(disk'[u]) /\ ~(u > issued')
        <4>1. issued \in 0..MaxUid
          BY <1>0, Zenon DEF TypeOK
        <4> QED  BY <2>1, <2>3, <3>1, <4>1, UidRange, Zenon
      <3> QED  BY <1>2, <2>1, <2>3, <3>1, <3>2, <3>3, Zenon DEF DiskInv
    <2>6. WorkInv(p)'
      BY <1>1, <1>2, <1>5, <2>1, <2>2, <2>3, Zenon DEF WorkInv, Reclaiming
    <2> QED  BY <1>1, <1>2, <1>5, <2>1, <2>2, <2>4, <2>5, <2>6, CopyWrite, Zenon
  <1> QED  BY <1>3, <1>4, <1>5 DEF EnsureServing

(* Finding the copy in service keeps the invariant.                         *)
LEMMA ServingReceiptStep ==
    ASSUME IInv, NEW p \in Pods, ServingReceipt(p)
    PROVE  IInv'
  <1>0. WorkInv(p)
    BY DEF IInv
  <1>1. UNCHANGED <<volume, disk, lock, pod, call, cluster>> /\ issued' = issued
        /\ work[p].step = "digest"
    BY Zenon DEF ServingReceipt, cluster, Doing
  <1>2. CASE Stop(p)
    BY <1>1, <1>2, StopsStep, Zenon
  <1>3. CASE /\ Proceed(p, "record") /\ CreationAuthority(p, work[p].uid)
             /\ Copy(p).marker /\ Copy(p).placed /\ "serving" \in Copy(p).at
    <2>1. /\ work' \in [Pods -> Works] /\ work'[p].step = "record" /\ work'[p].uid = work[p].uid
          /\ \A q \in Pods \ {p} : work'[q] = work[q]
      <3>1. "record" \in WorkSteps
        BY DEF WorkSteps
      <3> QED  BY <1>3, <3>1, WorkBasics, ProceedEffect, Zenon
    <2>2. Served(disk[work[p].uid]) /\ work[p].uid \in 1..issued
      <3>1. Shape(Copy(p)) /\ ~Copy(p).receipt /\ Copy(p).intent = "none" /\ work[p].uid \in 1..issued
        BY <1>1, <1>3, WorkBasics, Zenon DEF DiskInv, Shape, Copy, CreationAuthority
      <3> QED  BY <1>3, <3>1, Zenon DEF Shape, Copy, Served
    <2>3. Served(disk'[work'[p].uid]) /\ work'[p].uid \in 1..issued'
      BY <1>1, <2>1, <2>2, Zenon
    <2>4. volume'.uid = work'[p].uid => volume'.phase \in {"NodeCreating", "Ready", "Deleting"}
      BY <1>0, <1>1, <2>1 DEF WorkInv
    <2>5. WorkInv(p)'
      BY <2>1, <2>3, <2>4, Zenon DEF WorkInv, Holding, Reclaiming, Served
    <2> QED  BY <1>1, <2>1, <2>5, WorkOnly
  <1> QED  BY <1>2, <1>3, Zenon DEF ServingReceipt

(* The reclaiming process holds the flock over an object that is fenced.    *)
LEMMA ReclaimBasics ==
    ASSUME IInv, NEW p \in Pods, work[p].step \in {"prepare", "retire", "purge", "settle"}
    PROVE  /\ work \in [Pods -> Works] /\ work[p].uid \in Uids /\ work[p].uid \in 1..issued
           /\ Copy(p) = disk[work[p].uid] /\ Copy(p) \in Copies /\ Shape(Copy(p))
           /\ lock = p /\ volume.uid = work[p].uid /\ volume # NoVolume /\ ~Copy(p).receipt
           /\ volume.phase = "Deleting" /\ volume.cleanup \notin {"Verifying", "Completed"}
           /\ disk \in [Uids -> Copies] /\ issued \in Nat
  <1>1. /\ work[p].step \in Holding /\ work[p].step \in Reclaiming /\ work[p].step # "idle"
        /\ WorkInv(p) /\ TypeOK
    BY DEF Holding, Reclaiming, IInv
  <1>2. /\ work \in [Pods -> Works] /\ issued \in Nat /\ work[p].uid \in Uids
        /\ work[p].uid \in 1..issued /\ Copy(p) \in Copies /\ DiskInv(work[p].uid)
        /\ lock = p /\ volume.uid = work[p].uid /\ volume # NoVolume /\ ~Copy(p).receipt
    BY <1>1, WorkBasics
  <1>3. volume.phase = "Deleting"
    BY <1>1, <1>2, Zenon DEF WorkInv
  <1>4. Shape(Copy(p)) /\ volume.cleanup \notin {"Verifying", "Completed"}
    BY <1>2, Zenon DEF DiskInv, Copy
  <1> QED  BY <1>1, <1>2, <1>3, <1>4 DEF Copy, TypeOK

(* Such a process may write any copy that has the shape of a retirement.    *)
LEMMA ReclaimWrite ==
    ASSUME IInv, UNCHANGED <<volume, pod, call, cluster>>, NEW p \in Pods,
           work[p].step \in {"prepare", "retire", "purge", "settle"},
           NEW copy \in Copies, Write(p, copy), Shape(copy), copy.intent # "none",
           NEW next \in WorkSteps,
           \/ Proceed(p, next) /\ UNCHANGED lock /\ ~copy.receipt
           \/ Proceed(p, next) /\ Unlock(p) /\ copy.receipt /\ next = "report"
           \/ Stop(p) /\ Unlock(p),
           next \in {"retire", "purge", "settle", "report"},
           next \in {"retire", "purge"} => copy.intent = "inode",
           next = "purge" => copy.at \subseteq {"retired"},
           next = "settle" => copy.at = {},
           next = "report" => copy.receipt
    PROVE  IInv'
  <1>0. /\ work \in [Pods -> Works] /\ work[p].uid \in Uids /\ work[p].uid \in 1..issued
        /\ lock = p /\ volume.uid = work[p].uid /\ volume.phase = "Deleting"
        /\ volume.cleanup \notin {"Verifying", "Completed"} /\ ~Copy(p).receipt
        /\ disk \in [Uids -> Copies] /\ issued \in Nat
    BY ReclaimBasics, Zenon
  <1>1. PICK u \in Uids : u = work[p].uid
    BY <1>0
  <1>2. volume' = volume /\ issued' = issued /\ disk'[u] = copy
    BY <1>0, <1>1 DEF Write, cluster
  <1>3. DiskInv(u)'
    <2>1. ~(u > issued') /\ volume'.uid = u /\ volume'.phase = "Deleting"
      <3>1. issued \in 0..MaxUid
        BY Zenon DEF IInv, TypeOK
      <3> QED  BY <1>0, <1>1, <1>2, <3>1, UidRange, Zenon
    <2> QED  BY <1>0, <1>2, <2>1, Zenon DEF DiskInv
  <1>4. Later(Copy(p), copy)
    BY <1>0, Zenon DEF Later
  <1>5. lock' = lock \/ Unlock(p)
    OBVIOUS
  <1>6. CASE /\ Proceed(p, next)
             /\ \/ UNCHANGED lock /\ ~copy.receipt
                \/ copy.receipt /\ next = "report"
    <2>1. /\ work' \in [Pods -> Works] /\ work'[p].step = next /\ work'[p].uid = u
          /\ \A q \in Pods \ {p} : work'[q] = work[q]
      BY <1>0, <1>1, <1>6, ProceedEffect, Zenon
    <2>2. /\ next # "review" /\ next # "serve" /\ next # "record" /\ u \in 1..issued'
          /\ volume'.phase = "Deleting" /\ volume'.uid = u
      BY <1>0, <1>1, <1>2, Zenon
    <2>3. next \in Holding => lock' = p /\ ~copy.receipt
      BY <1>0, <1>6 DEF Holding
    <2>4. WorkInv(p)'
      BY <1>2, <2>1, <2>2, <2>3, Zenon DEF WorkInv
    <2> QED  BY <1>0, <1>1, <1>3, <1>4, <1>5, <2>1, <2>4, CopyWrite, Zenon
  <1>7. CASE Stop(p)
    <2>1. work' \in [Pods -> Works] /\ WorkInv(p)' /\ \A q \in Pods \ {p} : work'[q] = work[q]
      BY <1>0, <1>7, StopEffect, Zenon
    <2> QED  BY <1>0, <1>1, <1>3, <1>4, <1>5, <2>1, CopyWrite, Zenon
  <1> QED  BY <1>6, <1>7, Zenon

(* Wherever the effect was interrupted, the source is one that may be       *)
(* retired.                                                                 *)
LEMMA SourceIsValid ==
    ASSUME IInv, NEW p \in Pods, work[p].step = "prepare"
    PROVE  IF CancellingCreation THEN ValidCreationSource(Copy(p)) ELSE ValidServingSource(Copy(p))
  <1>0. /\ Copy(p) = disk[work[p].uid] /\ Copy(p) \in Copies /\ Shape(Copy(p)) /\ ~Copy(p).receipt
        /\ volume.uid = work[p].uid /\ volume # NoVolume /\ volume.phase = "Deleting"
        /\ work[p].uid \in Uids
    BY ReclaimBasics
  <1>1. /\ Copy(p).at \in {{}, {"stage"}, {"serving"}, {"retired"}}
        /\ Copy(p).intent \in {"none", "empty", "inode"}
    BY <1>0 DEF Shape, Copies
  <1>2. \A a, b \in Copy(p).at : a = b
    BY <1>1
  <1>3. ValidCreationSource(Copy(p))
    <2>1. CASE Copy(p).intent = "none"
      BY <1>0, <1>2, <2>1 DEF ValidCreationSource, Shape
    <2>2. CASE Copy(p).intent = "empty"
      BY <1>0, <1>2, <2>2 DEF ValidCreationSource, Shape
    <2>3. CASE Copy(p).intent = "inode"
      BY <1>0, <1>2, <2>3 DEF ValidCreationSource, Shape
    <2> QED  BY <1>1, <2>1, <2>2, <2>3
  <1>4. ASSUME ~CancellingCreation PROVE ValidServingSource(Copy(p))
    <2>1. volume \in Volumes /\ VolumeInv /\ DiskInv(work[p].uid)
      BY <1>0, VolumeFacts DEF IInv
    <2>2. volume.operation = "delete"
      BY <1>0, <1>4, <2>1, Zenon DEF CancellingCreation, VolumeInv, Volumes
    <2> QED  BY <1>0, <2>1, <2>2 DEF ValidServingSource, DiskInv, Served
  <1> QED  BY <1>3, <1>4, Zenon

(* Recording what a reclaim is about to retire keeps the invariant.         *)
LEMMA PrepareCleanupStep ==
    ASSUME IInv, NEW p \in Pods, PrepareCleanup(p)
    PROVE  IInv'
  <1>1. UNCHANGED <<volume, pod, call, cluster>> /\ work[p].step = "prepare"
    BY DEF PrepareCleanup, Doing
  <1>2. Copy(p) \in Copies /\ Shape(Copy(p)) /\ ~Copy(p).receipt
    BY <1>1, ReclaimBasics
  <1> DEFINE intent == IF Copy(p).intent # "none" THEN Copy(p).intent
                       ELSE IF Copy(p).at = {} THEN "empty" ELSE "inode"
             next == IF intent = "inode" THEN "retire" ELSE "settle"
  <1>3. /\ Write(p, [Copy(p) EXCEPT !.intent = intent])
        /\ \/ Proceed(p, next) /\ UNCHANGED lock
           \/ Stop(p) /\ Unlock(p)
    BY <1>1, SourceIsValid DEF PrepareCleanup
  <1>4. PICK copy \in Copies :
            /\ copy = [Copy(p) EXCEPT !.intent = intent]
            /\ copy.intent = intent /\ copy.at = Copy(p).at /\ copy.marker = Copy(p).marker
            /\ copy.placed = Copy(p).placed /\ copy.receipt = Copy(p).receipt
    <2>1. intent \in {"none", "empty", "inode"}
      BY <1>2 DEF Copies
    <2> HIDE DEF intent
    <2> DEFINE new == [Copy(p) EXCEPT !.intent = intent]
    <2>2. /\ new \in Copies /\ new.intent = intent /\ new.at = Copy(p).at
          /\ new.marker = Copy(p).marker /\ new.placed = Copy(p).placed
          /\ new.receipt = Copy(p).receipt
      BY <1>2, <2>1 DEF Copies
    <2> QED  BY <2>2, Zenon
  <1>5. /\ Shape(copy) /\ copy.intent # "none" /\ ~copy.receipt /\ Write(p, copy)
        /\ next = "retire" => copy.intent = "inode"
        /\ next = "settle" => copy.at = {}
        /\ next \in {"retire", "settle"}
    <2>1. CASE Copy(p).intent = "none" /\ Copy(p).at = {}
      BY <1>2, <1>3, <1>4, <2>1 DEF Shape
    <2>2. CASE Copy(p).intent = "none" /\ Copy(p).at # {}
      BY <1>2, <1>3, <1>4, <2>2 DEF Shape
    <2>3. CASE Copy(p).intent # "none"
      <3>1. Copy(p).intent \in {"empty", "inode"}
        BY <1>2, <2>3 DEF Copies
      <3> QED  BY <1>2, <1>3, <1>4, <2>3, <3>1 DEF Shape
    <2> QED  BY <2>1, <2>2, <2>3, Zenon
  <1>6. next \in WorkSteps
    BY <1>5 DEF WorkSteps
  <1> HIDE DEF intent, next
  <1>7. /\ \/ Proceed(p, next) /\ UNCHANGED lock /\ ~copy.receipt
           \/ Stop(p) /\ Unlock(p)
        /\ next \in {"retire", "purge"} => copy.intent = "inode"
        /\ next # "purge" /\ next # "report"
    BY <1>3, <1>5
  <1> QED  BY <1>1, <1>5, <1>6, <1>7, ReclaimWrite, Zenon

(* Renaming the copy to its retired name keeps the invariant.               *)
LEMMA RetireStep ==
    ASSUME IInv, NEW p \in Pods, RetireCopy(p)
    PROVE  IInv'
  <1>1. UNCHANGED <<volume, pod, call, cluster>> /\ work[p].step = "retire" /\ "purge" \in WorkSteps
    BY DEF RetireCopy, Doing, WorkSteps
  <1>2. Copy(p) \in Copies /\ Shape(Copy(p)) /\ ~Copy(p).receipt /\ Copy(p).intent = "inode"
    BY <1>1, ReclaimBasics, Zenon DEF IInv, WorkInv
  <1>3. PICK copy \in Copies :
            /\ copy = [Copy(p) EXCEPT !.at = IF @ = {} THEN {} ELSE {"retired"}]
            /\ copy.at \in {{}, {"retired"}} /\ copy.intent = Copy(p).intent
            /\ copy.marker = Copy(p).marker /\ copy.receipt = Copy(p).receipt
    <2> DEFINE new == [Copy(p) EXCEPT !.at = IF @ = {} THEN {} ELSE {"retired"}]
    <2>1. /\ new \in Copies /\ new.at \in {{}, {"retired"}} /\ new.intent = Copy(p).intent
          /\ new.marker = Copy(p).marker /\ new.receipt = Copy(p).receipt
      BY <1>2 DEF Copies, Places
    <2> QED  BY <2>1, Zenon
  <1>4. /\ Shape(copy) /\ ~copy.receipt /\ copy.intent = "inode" /\ copy.at \subseteq {"retired"}
    BY <1>2, <1>3 DEF Shape
  <1>5. /\ Write(p, copy)
        /\ \/ Proceed(p, "purge") /\ UNCHANGED lock /\ ~copy.receipt
           \/ Stop(p) /\ Unlock(p)
    BY <1>3, <1>4 DEF RetireCopy
  <1> QED  BY <1>1, <1>4, <1>5, ReclaimWrite, Zenon

(* Removing the retired copy keeps the invariant.                           *)
LEMMA PurgeStep ==
    ASSUME IInv, NEW p \in Pods, PurgeCopy(p)
    PROVE  IInv'
  <1>1. UNCHANGED <<volume, pod, call, cluster>> /\ work[p].step = "purge" /\ "settle" \in WorkSteps
    BY DEF PurgeCopy, Doing, WorkSteps
  <1>2. /\ Copy(p) \in Copies /\ Shape(Copy(p)) /\ ~Copy(p).receipt /\ Copy(p).intent = "inode"
        /\ Copy(p).at \subseteq {"retired"}
    BY <1>1, ReclaimBasics, Zenon DEF IInv, WorkInv
  <1>3. PICK copy \in Copies :
            /\ copy = [Copy(p) EXCEPT !.at = @ \ {"retired"}]
            /\ copy.at = {} /\ copy.intent = Copy(p).intent
            /\ copy.marker = Copy(p).marker /\ copy.receipt = Copy(p).receipt
    <2>1. Copy(p).at \ {"retired"} = {} /\ {} \in SUBSET Places
      BY <1>2
    <2> DEFINE new == [Copy(p) EXCEPT !.at = @ \ {"retired"}]
    <2>2. /\ new \in Copies /\ new.at = {} /\ new.intent = Copy(p).intent
          /\ new.marker = Copy(p).marker /\ new.receipt = Copy(p).receipt
      BY <1>2, <2>1 DEF Copies
    <2> QED  BY <2>2, Zenon
  <1>4. Shape(copy) /\ ~copy.receipt /\ copy.intent = "inode" /\ copy.at = {}
    BY <1>2, <1>3 DEF Shape
  <1>5. /\ Write(p, copy)
        /\ \/ Proceed(p, "settle") /\ UNCHANGED lock /\ ~copy.receipt
           \/ Stop(p) /\ Unlock(p)
    BY <1>3, <1>4 DEF PurgeCopy
  <1> QED  BY <1>1, <1>4, <1>5, ReclaimWrite, Zenon

(* Writing the reclaim's receipt keeps the invariant.                       *)
LEMMA SettleReclaimStep ==
    ASSUME IInv, NEW p \in Pods, SettleReclaim(p)
    PROVE  IInv'
  <1>1. UNCHANGED <<volume, pod, call, cluster>> /\ work[p].step = "settle" /\ "report" \in WorkSteps
    BY DEF SettleReclaim, Doing, WorkSteps
  <1>2. Copy(p) \in Copies /\ Copy(p).at = {} /\ Copy(p).intent # "none"
    BY <1>1, ReclaimBasics, Zenon DEF IInv, WorkInv
  <1>3. PICK copy \in Copies :
            /\ copy = [Copy(p) EXCEPT !.receipt = TRUE, !.marker = FALSE, !.placed = FALSE]
            /\ copy.at = {} /\ copy.intent # "none" /\ copy.receipt /\ ~copy.marker /\ ~copy.placed
    <2> DEFINE new == [Copy(p) EXCEPT !.receipt = TRUE, !.marker = FALSE, !.placed = FALSE]
    <2>1. /\ new \in Copies /\ new.at = {} /\ new.intent # "none" /\ new.receipt
          /\ ~new.marker /\ ~new.placed
      BY <1>2, Zenon DEF Copies
    <2> QED  BY <2>1, Zenon
  <1>4. Shape(copy)
    BY <1>3 DEF Shape
  <1>5. Write(p, copy) /\ Proceed(p, "report") /\ Unlock(p)
    BY <1>2, <1>3 DEF SettleReclaim
  <1> QED  BY <1>1, <1>3, <1>4, <1>5, ReclaimWrite, Zenon

(* A process that ends with a permitted write of the object keeps the       *)
(* invariant.                                                               *)
LEMMA EndsStep ==
    ASSUME IInv, VolumeWrite, volume' \in Volumes \cup {NoVolume},
           UNCHANGED <<disk, lock, pod, call, cluster>>, NEW p \in Pods, Stop(p)
    PROVE  IInv'
  <1>0. TypeOK /\ PendingInv
    BY DEF IInv
  <1>1. UNCHANGED <<issued, inventory, claim, pv, replied, asked, pending, faults>>
    BY DEF cluster
  <1>2. work' \in [Pods -> Works] /\ WorkInv(p)' /\ \A q \in Pods \ {p} : work'[q] = work[q]
    BY WorkBasics, StopEffect
  <1>3. TypeOK' /\ PendingInv'
    BY <1>0, <1>1, <1>2 DEF TypeOK, PendingInv
  <1>4. \A q \in Pods : WorkInv(q)'
    BY <1>2, WorkKept
  <1>5. \A u \in Uids : DiskInv(u)'
    BY DiskKept
  <1>6. \A t \in Threads : CallInv(t)'
    BY <1>1, CallKept
  <1> QED  BY <1>1, <1>3, <1>4, <1>5, <1>6, VolumeKept, RepliedKept DEF IInv

(* Recording the creation's receipt keeps the invariant.                    *)
LEMMA RecordReceiptStep ==
    ASSUME IInv, NEW p \in Pods, RecordCreationReceipt(p)
    PROVE  IInv'
  <1>1. /\ UNCHANGED <<disk, lock, pod, call, cluster>> /\ issued' = issued /\ Stop(p)
        /\ work[p].step = "record"
    BY DEF RecordCreationReceipt, cluster, Doing
  <1>2. CASE volume' = volume
    <2>1. VolumeWrite /\ volume' \in Volumes \cup {NoVolume}
      BY <1>1, <1>2 DEF VolumeWrite, IInv, TypeOK
    <2> QED  BY <1>1, <2>1, EndsStep
  <1>3. CASE /\ volume.uid = work[p].uid /\ volume # NoVolume /\ volume.phase = "NodeCreating"
             /\ volume.executor = p /\ volume' = [volume EXCEPT !.receipt = p]
    <2>1. volume \in Volumes
      BY <1>3, VolumeFacts DEF IInv
    <2>2. Served(disk[volume.uid])
      <3>1. WorkInv(p) /\ DiskInv(work[p].uid)
        BY <1>1, WorkBasics DEF IInv
      <3> QED  BY <1>1, <1>3, <3>1 DEF WorkInv, DiskInv
    <2>3. Receives /\ volume' \in Volumes
      BY <1>1, <1>3, <2>1, <2>2, WriteReceipt DEF Receives, KeepsUid
    <2> QED  BY <1>1, <2>3, EndsStep DEF VolumeWrite
  <1> QED  BY <1>2, <1>3 DEF RecordCreationReceipt

(* Reporting the reclaim's receipt keeps the invariant.                     *)
LEMMA ReportStep ==
    ASSUME IInv, NEW p \in Pods, ReportCleanup(p)
    PROVE  IInv'
  <1>1. /\ UNCHANGED <<disk, lock, pod, call, cluster>> /\ issued' = issued /\ Stop(p)
        /\ work[p].step = "report" /\ Doing(p, "report")
    BY DEF ReportCleanup, cluster, Doing, IInv, WorkInv
  <1>2. CASE volume' = volume
    <2>1. VolumeWrite /\ volume' \in Volumes \cup {NoVolume}
      BY <1>1, <1>2 DEF VolumeWrite, IInv, TypeOK
    <2> QED  BY <1>1, <2>1, EndsStep
  <1>3. CASE /\ volume.uid = work[p].uid /\ volume # NoVolume /\ volume.cleanup = "Running"
             /\ volume' = [volume EXCEPT !.cleanup = "Verifying"]
    <2>1. volume \in Volumes /\ "Verifying" \in Journal /\ 0 \in 0..MaxPod
      BY <1>3, VolumeFacts, Basics DEF IInv, Journal
    <2>2. disk[volume.uid].receipt /\ volume.phase = "Deleting"
      BY <1>1, <1>3 DEF IInv, WorkInv, Reclaiming
    <2>3. Cleans /\ volume' \in Volumes
      BY <1>1, <1>3, <2>1, <2>2, WriteCleanup, Zenon DEF Cleans, KeepsUid
    <2> QED  BY <1>1, <2>3, EndsStep DEF VolumeWrite
  <1> QED  BY <1>1, <1>2, <1>3 DEF ReportCleanup

(* The death of a process at any step keeps the invariant.                  *)
LEMMA DiesStep ==
    ASSUME IInv, NEW p \in Pods, ProcessDies(p)
    PROVE  IInv'
  <1>0. TypeOK
    BY DEF IInv
  <1>1. /\ UNCHANGED <<volume, issued, disk, pod, inventory, call, claim, pv, replied, asked, pending>>
        /\ Stop(p) /\ Unlock(p) /\ Fault
    BY DEF ProcessDies
  <1>2. work' \in [Pods -> Works] /\ WorkInv(p)' /\ \A q \in Pods \ {p} : work'[q] = work[q]
    BY <1>1, WorkBasics, StopEffect
  <1>3. faults' \in 0..MaxFaults
    BY <1>0, <1>1, Basics DEF Fault, TypeOK
  <1>4. lock' \in 0..MaxPod /\ Exclusive(p)
    BY <1>0, <1>1, Basics DEF TypeOK, Exclusive, Unlock, Pods
  <1>5. disk' \in [Uids -> Copies] /\ \A u \in Uids : Later(disk[u], disk'[u])
    BY <1>0, <1>1 DEF TypeOK, Later, Served
  <1>6. \A u \in Uids : DiskInv(u)'
    BY <1>1, DiskKept DEF VolumeWrite
  <1> QED  BY <1>1, <1>2, <1>3, <1>4, <1>5, <1>6, WorkStep

-----------------------------------------------------------------------------
(* The surroundings, and the whole.                                         *)

(* What does not touch object, disk, process or call keeps the invariant.   *)
LEMMA SurroundingStep ==
    ASSUME IInv,
           UNCHANGED <<volume, issued, disk, lock, work, call, replied, asked, pending, faults>>,
           pod' \in Pods, inventory' \in [copies : SUBSET Uids, after : SUBSET Uids],
           claim' \in {"live", "bound", "gone"}, pv' \in BOOLEAN
    PROVE  IInv'
  <1>0. TypeOK /\ PendingInv /\ VolumeWrite
    BY DEF IInv, VolumeWrite
  <1>1. TypeOK' /\ PendingInv'
    BY <1>0 DEF TypeOK, PendingInv
  <1>2. /\ \A u \in Uids : DiskInv(u)'
        /\ \A p \in Pods : WorkInv(p)'
        /\ \A t \in Threads : CallInv(t)'
    BY <1>0, DiskKept, WorkKept, CallKept
  <1> QED  BY <1>0, <1>1, <1>2, VolumeKept, RepliedKept DEF IInv

(* Scans, the PV, the claim and a replaced Pod keep the invariant.          *)
LEMMA SurroundingSteps ==
    ASSUME IInv, ScanPool \/ SavePV \/ DeleteClaim \/ ReplacePod \/ UNCHANGED vars
    PROVE  IInv'
  <1>0. /\ pod \in Pods /\ inventory \in [copies : SUBSET Uids, after : SUBSET Uids]
        /\ claim \in {"live", "bound", "gone"} /\ pv \in BOOLEAN
    BY DEF IInv, TypeOK
  <1>1. UNCHANGED <<volume, issued, disk, lock, work, call, replied, asked, pending, faults>>
    BY Zenon DEF ScanPool, SavePV, DeleteClaim, ReplacePod, cluster, vars
  <1>2. inventory' \in [copies : SUBSET Uids, after : SUBSET Uids]
    <2>1. CASE ScanPool
      BY <2>1, Zenon DEF ScanPool
    <2>2. CASE SavePV \/ DeleteClaim \/ ReplacePod \/ UNCHANGED vars
      <3>1. inventory' = inventory
        BY <2>2, Zenon DEF SavePV, DeleteClaim, ReplacePod, cluster, vars
      <3> QED  BY <1>0, <3>1
    <2> QED  BY <2>1, <2>2
  <1>3. pod' \in Pods
    <2>1. CASE ReplacePod
      <3>1. pod' = pod + 1 /\ pod < MaxPod
        BY <2>1, Zenon DEF ReplacePod
      <3> QED  BY <1>0, <3>1, Basics DEF Pods
    <2>2. CASE ScanPool \/ SavePV \/ DeleteClaim \/ UNCHANGED vars
      <3>1. pod' = pod
        BY <2>2, Zenon DEF ScanPool, SavePV, DeleteClaim, cluster, vars
      <3> QED  BY <1>0, <3>1
    <2> QED  BY <2>1, <2>2
  <1>4. claim' \in {"live", "bound", "gone"} /\ pv' \in BOOLEAN
    BY <1>0, Zenon DEF ScanPool, SavePV, DeleteClaim, ReplacePod, cluster, vars
  <1> QED  BY <1>1, <1>2, <1>3, <1>4, SurroundingStep

(* The invariant holds initially.                                           *)
LEMMA InitIInv == Init => IInv
  <1> SUFFICES ASSUME Init PROVE IInv
    OBVIOUS
  <1>1. TypeOK
    <2>1. Untouched \in Copies /\ Idle \in Works /\ Idle \in Calls
      BY Basics DEF Untouched, Copies
    <2>2. /\ 0 \in 0..MaxUid /\ 0 \in 0..MaxPod /\ 0 \in 0..MaxDeletes /\ 0 \in 0..MaxFaults
          /\ 1 \in Pods
      BY Basics
    <2>3. [copies |-> {}, after |-> {}] \in [copies : SUBSET Uids, after : SUBSET Uids]
      OBVIOUS
    <2> QED  BY <2>1, <2>2, <2>3, Zenon DEF Init, TypeOK
  <1>2. VolumeInv /\ RepliedInv /\ PendingInv
    BY DEF Init, VolumeInv, RepliedInv, PendingInv
  <1>3. \A u \in Uids : DiskInv(u)
    <2> TAKE u \in Uids
    <2>1. disk[u] = Untouched /\ volume.uid = 0 /\ u # 0
      BY Basics DEF Init
    <2>2. Shape(Untouched) /\ Untouched.at = {}
      BY DEF Shape, Untouched
    <2> QED  BY <2>1, <2>2 DEF DiskInv
  <1>4. \A p \in Pods : WorkInv(p)
    BY Basics DEF Init, WorkInv
  <1>5. \A t \in Threads : CallInv(t)
    <2> TAKE t \in Threads
    <2>1. call[t].step = "idle" /\ call[t].uid = 0 /\ issued = 0
      BY Basics DEF Init
    <2> QED  BY <2>1 DEF CallInv
  <1> QED  BY <1>1, <1>2, <1>3, <1>4, <1>5 DEF IInv

(* Every step keeps the invariant.                                          *)
LEMMA InductiveStep == IInv /\ [Next]_vars => IInv'
  <1> SUFFICES ASSUME IInv, [Next]_vars PROVE IInv'
    OBVIOUS
  <1>1. CASE CreateVolume \/ Creating
    BY <1>1, ReadSteps, InspectStep, BeginCreateStep, RecordIntentStep, PrepareStep,
         AwaitStep,
       CompleteStep, ResponseStep DEF Creating
  <1>2. CASE DeleteVolume \/ DeletableState \/ BeginDelete
    BY <1>2, DeleteStep, DeletableStep, FenceStep
  <1>3. ASSUME NEW t \in Threads, Retiring(t) PROVE IInv'
    BY <1>3, AdvanceStep, CancelUnstartedStep, FinalizerStep, CancellationStep, SettleStep,
       RemoveStep DEF Retiring
  <1>4. ASSUME NEW t \in Threads, CallEnds(t) PROVE IInv'
    BY <1>4, CallEndsStep
  <1>5. CASE Reconcile \/ ClaimRetired
    BY <1>5, ControllerSteps
  <1>6. ASSUME NEW p \in Pods, Executing(p) PROVE IInv'
    BY <1>6, StartStep, LockServingStep, EnsureServingStep, ServingReceiptStep,
         RecordReceiptStep,
       LockReclaimStep, PrepareCleanupStep, RetireStep, PurgeStep, SettleReclaimStep, ReportStep
       DEF Executing
  <1>7. ASSUME NEW p \in Pods, ProcessDies(p) PROVE IInv'
    BY <1>7, DiesStep
  <1>8. CASE ScanPool \/ SavePV \/ DeleteClaim \/ ReplacePod \/ UNCHANGED vars
    BY <1>8, SurroundingSteps
  <1> QED  BY <1>1, <1>2, <1>3, <1>4, <1>5, <1>6, <1>7, <1>8 DEF Next

(* The invariant holds throughout.                                          *)
LEMMA Invariance == Spec => []IInv
  BY InitIInv, InductiveStep, PTL DEF Spec

-----------------------------------------------------------------------------
(* The theorems.                                                            *)

(* Every variable keeps its type: no call, controller or executor writes a  *)
(* record of the wrong shape.                                               *)
THEOREM TypeCorrect == Spec => []TypeOK
  <1>1. IInv => TypeOK
    BY DEF IInv
  <1> QED  BY <1>1, Invariance, PTL

(* The reply of CreateVolume is durable: until somebody asks for a          *)
(* deletion, the volume that was acknowledged stays the Ready incarnation   *)
(* of its name, whatever retries and retirements overlap with it.           *)
THEOREM AcknowledgedKept == Spec => []AcknowledgedVolumeStays
  <1>1. IInv => AcknowledgedVolumeStays
    <2> SUFFICES ASSUME IInv, NEW u \in replied, asked = 0
                 PROVE  volume.uid = u /\ volume # NoVolume /\ ValidReadyCreationHistory
      BY DEF AcknowledgedVolumeStays
    <2>1. TypeOK /\ VolumeInv /\ volume.uid = u /\ volume.phase = "Ready" /\ u \in Uids
      BY DEF IInv, RepliedInv, TypeOK
    <2>2. volume # NoVolume /\ volume \in Volumes
      BY <2>1, VolumeFacts, Basics
    <2>3. volume.operation = "" /\ volume.cleanup = "None" /\ ~volume.deleting
      BY <2>1, <2>2, Zenon DEF VolumeInv
    <2> QED  BY <2>1, <2>2, <2>3, Zenon
      DEF VolumeInv, ValidReadyCreationHistory, ValidCreationReceipt
  <1> QED  BY <1>1, Invariance, PTL

(* CompleteCreate writes Ready only over a directory that is in place: the  *)
(* receipt it checks was written for a served copy, and no executor takes   *)
(* a served copy away before the deletion fence.                            *)
THEOREM ReadyPlaced == Spec => []ReadyVolumeIsPlaced
  <1>1. IInv => ReadyVolumeIsPlaced
    <2> SUFFICES ASSUME IInv, volume # NoVolume, volume.phase = "Ready"
                 PROVE  disk[volume.uid].placed /\ disk[volume.uid].at = {"serving"}
      BY DEF ReadyVolumeIsPlaced
    <2>1. VolumeInv /\ volume.uid \in Uids /\ DiskInv(volume.uid)
      BY VolumeFacts DEF IInv
    <2>2. volume.receipt # 0
      BY <2>1, Zenon DEF VolumeInv
    <2> QED  BY <2>1, <2>2 DEF DiskInv, Served
  <1> QED  BY <1>1, Invariance, PTL

(* The finalizer of the object outlives every directory of its copy, the    *)
(* late effects of replaced Node Pods included.                             *)
THEOREM DiskReserved == Spec => []DiskIsReserved
  <1>1. IInv => DiskIsReserved
    <2> SUFFICES ASSUME IInv, NEW u \in Uids, disk[u].at # {}
                 PROVE  volume.uid = u /\ volume # NoVolume
      BY DEF DiskIsReserved
    <2>1. TypeOK /\ volume.uid = u
      BY Zenon DEF IInv, DiskInv
    <2> QED  BY <2>1, VolumeFacts, Basics
  <1> QED  BY <1>1, Invariance, PTL

(* SettleReclaim writes a receipt that no later effect contradicts.         *)
THEOREM ReceiptFinal == Spec => []ReceiptIsFinal
  <1>1. IInv => ReceiptIsFinal
    BY Zenon DEF IInv, DiskInv, Shape, ReceiptIsFinal
  <1> QED  BY <1>1, Invariance, PTL

(* The validation of a cleanup source accepts whatever an interrupted       *)
(* creation or retirement leaves, so no journal ends in NeedsReview.        *)
THEOREM ReviewNeverNeeded == Spec => []NoReviewNeeded
  <1>1. IInv => NoReviewNeeded
    BY Zenon DEF IInv, VolumeInv, NoReviewNeeded
  <1> QED  BY <1>1, Invariance, PTL
=============================================================================
