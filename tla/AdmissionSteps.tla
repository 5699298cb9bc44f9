---------------------------- MODULE AdmissionSteps ----------------------------
(***************************************************************************)
(* What every action of module Admission does to the state, and that the   *)
(* invariants of calls, volumes, copies and locks survive it.              *)
(***************************************************************************)
EXTENDS AdmissionInvariant, TLAPS

(* The provers of a leaf that names none.                                    *)
USE SMTT(15), Z3T(15), ZenonT(30)

-----------------------------------------------------------------------------
(* Types.                                                                   *)

(* The idle records.                                                        *)
LEMMA IdleTypes ==
    /\ IdleCall \in Calls /\ IdleControl \in Controls /\ IdleNode \in Observations
    /\ IdleCall.step = "idle" /\ IdleControl.step = "idle" /\ ~IdleNode.approval
    /\ IdleCall.pool = NoPool
  BY DEF IdleCall, IdleControl, IdleNode, Calls, CallSteps, Controls, Observations, Nobody,
       Owners

(* What listing the Volumes returns.                                        *)
LEMMA VolumesType == TypeOK => Volumes \in [Vols -> Owners]
  BY DEF TypeOK, Volumes, Owners, VolumeObjects

(* The initial state has its type.                                          *)
LEMMA InitType == Init => TypeOK
  BY IdleTypes
    DEF Init, TypeOK, NoVolume, NoMove, Registered, VolumeObjects, MoveObjects, PoolObjects

-----------------------------------------------------------------------------
(* What each action writes, place by place.                                 *)

(* A CSI call that goes on changes its own record only.                     *)
LEMMA CallEffect ==
    ASSUME csi \in [Vols -> Calls], NEW v \in Vols, NEW step \in CallSteps, Call(v, step)
    PROVE  /\ csi' \in [Vols -> Calls] /\ \A w \in Vols \ {v} : csi'[w] = csi[w]
           /\ csi'[v].step = step /\ csi'[v].pool = csi[v].pool /\ csi'[v].seen = csi[v].seen
  BY Zenon DEF Call, Calls

(* A CSI call that is refused ends.                                         *)
LEMMA RefuseEffect ==
    ASSUME csi \in [Vols -> Calls], NEW v \in Vols, Refuse(v)
    PROVE  /\ csi' \in [Vols -> Calls] /\ \A w \in Vols \ {v} : csi'[w] = csi[w]
           /\ csi'[v].step = "idle"
  BY IdleTypes DEF Refuse

(* A Pool lock is taken only when it is free.                               *)
LEMMA LockEffect ==
    ASSUME lock \in [Pools -> BOOLEAN], NEW p \in Pools, Lock(p)
    PROVE  /\ lock' \in [Pools -> BOOLEAN] /\ \A q \in Pools \ {p} : lock'[q] = lock[q]
           /\ lock'[p] /\ ~lock[p]
  BY DEF Lock

(* Releasing one Pool leaves the others.                                    *)
LEMMA UnlockEffect ==
    ASSUME lock \in [Pools -> BOOLEAN], NEW p, Unlock(p)
    PROVE  lock' \in [Pools -> BOOLEAN] /\ \A q \in Pools \ {p} : lock'[q] = lock[q]
  BY Zenon DEF Unlock

(* A Move that changes its stage keeps its Pools.                           *)
LEMMA StageEffect ==
    ASSUME mv \in [Vols -> MoveObjects], NEW v \in Vols, NEW stage, Stage(v, stage),
           stage \in {"approved", "recovering", "rolled"}
    PROVE  /\ mv' \in [Vols -> MoveObjects] /\ \A w \in Vols \ {v} : mv'[w] = mv[w]
           /\ mv'[v].stage = stage /\ mv'[v].src = mv[v].src /\ mv'[v].dst = mv[v].dst
  BY DEF Stage, MoveObjects

(* CreateVolume reads the volume: it places a new one or resumes an intent. *)
LEMMA CreateVolumeEffect ==
    ASSUME TypeOK, NEW v \in Vols, CreateVolume(v), ~LateResume
    PROVE  /\ TypeOK' /\ UNCHANGED <<vol, mv, pool, data, lock, mob, ctl, node>>
           /\ \A w \in Vols \ {v} : csi'[w] = csi[w]
           /\ csi[v].step = "idle"
           /\ \/ csi'[v].step = "lock" /\ vol[v].phase = "none" /\ csi'[v].pool \in Pools
              \/ csi'[v].step = "relock" /\ vol[v].phase = "intent" /\ csi'[v].pool = vol[v].pool
  <1> USE DEF TypeOK
  <1>1. ASSUME NEW step \in CallSteps, NEW p \in Pools \cup {NoPool},
               csi' = [csi EXCEPT ![v].step = step, ![v].pool = p]
        PROVE  /\ csi' \in [Vols -> Calls] /\ \A w \in Vols \ {v} : csi'[w] = csi[w]
               /\ csi'[v].step = step /\ csi'[v].pool = p
    <2>1. csi \in [Vols -> Calls]
      OBVIOUS
    <2> HIDE DEF TypeOK
    <2> QED  BY <1>1, <2>1, Zenon DEF Calls
  <1>2. "lock" \in CallSteps /\ "relock" \in CallSteps
    BY DEF CallSteps
  <1>3. vol[v].pool \in Pools \cup {NoPool}
    BY DEF VolumeObjects
  <1>4. /\ csi[v].step = "idle" /\ UNCHANGED <<vol, mv, pool, data, lock, mob, ctl, node>>
        /\ \/ /\ vol[v].phase = "none"
              /\ \E p \in Pools : csi' = [csi EXCEPT ![v].step = "lock", ![v].pool = p]
           \/ /\ vol[v].phase = "intent"
              /\ csi' = [csi EXCEPT ![v].step = "relock", ![v].pool = vol[v].pool]
    BY DEF CreateVolume
  <1> QED  BY <1>1, <1>2, <1>3, <1>4, ZenonT(30)

(* The call takes the lock of its Pool.                                     *)
LEMMA LockPoolEffect ==
    ASSUME TypeOK, NEW v \in Vols, LockPool(v), csi[v].pool \in Pools
    PROVE  /\ TypeOK' /\ UNCHANGED <<vol, mv, pool, data, mob, ctl, node>>
           /\ \A w \in Vols \ {v} : csi'[w] = csi[w]
           /\ csi'[v].pool = csi[v].pool
           /\ \/ csi[v].step = "lock" /\ csi'[v].step = "volumes"
              \/ csi[v].step = "relock" /\ csi'[v].step = "recheck"
           /\ ~lock[csi[v].pool] /\ lock'[csi[v].pool]
           /\ \A q \in Pools \ {csi[v].pool} : lock'[q] = lock[q]
  <1>1. "volumes" \in CallSteps /\ "recheck" \in CallSteps
    BY DEF CallSteps
  <1> QED  BY <1>1, CallEffect, LockEffect DEF LockPool, TypeOK

(* Under the lock the call lists the Volumes.                               *)
LEMMA ListVolumesEffect ==
    ASSUME TypeOK, NEW v \in Vols, ListVolumes(v)
    PROVE  /\ TypeOK' /\ UNCHANGED <<vol, mv, pool, data, lock, mob, ctl, node>>
           /\ \A w \in Vols \ {v} : csi'[w] = csi[w]
           /\ csi[v].step = "volumes" /\ csi'[v].step = "moves"
           /\ csi'[v].pool = csi[v].pool /\ csi'[v].seen = Volumes
  <1>1. csi \in [Vols -> Calls] /\ Volumes \in [Vols -> Owners]
    BY VolumesType DEF TypeOK
  <1>2. csi[v].step = "volumes" /\ csi' = [csi EXCEPT ![v].step = "moves", ![v].seen = Volumes]
    BY DEF ListVolumes
  <1>3. /\ csi' \in [Vols -> Calls] /\ \A w \in Vols \ {v} : csi'[w] = csi[w]
        /\ csi'[v].step = "moves" /\ csi'[v].pool = csi[v].pool /\ csi'[v].seen = Volumes
    BY <1>1, <1>2, Zenon DEF Calls, CallSteps
  <1> QED  BY <1>2, <1>3 DEF ListVolumes, TypeOK

(* Then it lists the Moves, and goes on only if the request fits what both  *)
(* lists add up to.                                                         *)
LEMMA PoolFitsEffect ==
    ASSUME TypeOK, NEW v \in Vols, PoolFits(v)
    PROVE  /\ TypeOK' /\ UNCHANGED <<vol, mv, pool, data, mob, ctl, node>>
           /\ \A w \in Vols \ {v} : csi'[w] = csi[w]
           /\ csi[v].step = "moves"
           /\ \A q \in Pools \ {csi[v].pool} : lock'[q] = lock[q]
           /\ \/ /\ csi'[v].step = "measure" /\ csi'[v].pool = csi[v].pool /\ lock' = lock
                 /\ LedgerReadable(csi[v].seen)
                 /\ FitsReservation(Size[v], ReservedBytesForPool(csi[v].seen, csi[v].pool),
                                    Limit[csi[v].pool])
              \/ csi'[v].step = "idle"
  <1>1. CASE csi' = [csi EXCEPT ![v].step = "measure", ![v].seen = Nobody] /\ UNCHANGED lock
             /\ LedgerReadable(csi[v].seen)
             /\ FitsReservation(Size[v], ReservedBytesForPool(csi[v].seen, csi[v].pool),
                                Limit[csi[v].pool])
    <2>1. csi \in [Vols -> Calls] /\ Nobody \in [Vols -> Owners]
      BY DEF TypeOK, Nobody, Owners
    <2>2. /\ csi' \in [Vols -> Calls] /\ \A w \in Vols \ {v} : csi'[w] = csi[w]
          /\ csi'[v].step = "measure" /\ csi'[v].pool = csi[v].pool
      BY <1>1, <2>1, Zenon DEF Calls, CallSteps
    <2> QED  BY <1>1, <2>2 DEF PoolFits, TypeOK
  <1>2. CASE Refuse(v) /\ Unlock(csi[v].pool)
    BY <1>2, RefuseEffect, UnlockEffect DEF PoolFits, TypeOK
  <1> QED  BY <1>1, <1>2 DEF PoolFits

(* It goes on to create only with a ready Pool and no volume.               *)
LEMMA BeginCreateEffect ==
    ASSUME TypeOK, NEW v \in Vols, BeginCreate(v), csi[v].step # "resume"
    PROVE  /\ TypeOK' /\ UNCHANGED <<vol, mv, pool, data, mob, ctl, node>>
           /\ \A w \in Vols \ {v} : csi'[w] = csi[w]
           /\ csi[v].step = "measure"
           /\ \A q \in Pools \ {csi[v].pool} : lock'[q] = lock[q]
           /\ \/ /\ csi'[v].step = "create" /\ csi'[v].pool = csi[v].pool /\ lock' = lock
                 /\ vol[v].phase = "none" /\ PoolReady(csi[v].pool)
              \/ csi'[v].step = "idle"
  <1>1. CASE /\ Call(v, "create") /\ UNCHANGED lock /\ csi[v].step = "measure"
             /\ vol[v].phase = "none" /\ PoolReady(csi[v].pool)
             /\ UNCHANGED <<vol, mv, pool, data, mob, ctl, node>>
    <2>1. "create" \in CallSteps
      BY DEF CallSteps
    <2> QED  BY <1>1, <2>1, CallEffect DEF TypeOK
  <1>2. CASE /\ Refuse(v) /\ Unlock(csi[v].pool) /\ csi[v].step = "measure"
             /\ UNCHANGED <<vol, mv, pool, data, mob, ctl, node>>
    BY <1>2, RefuseEffect, UnlockEffect DEF TypeOK
  <1> QED  BY <1>1, <1>2 DEF BeginCreate

(* The intent is created in the Pool the call has locked.                   *)
LEMMA CreateIntentEffect ==
    ASSUME TypeOK, NEW v \in Vols, CreateIntent(v), csi[v].step # "create late"
    PROVE  /\ TypeOK' /\ UNCHANGED <<mv, pool, data, lock, mob, ctl, node>>
           /\ \A w \in Vols \ {v} : csi'[w] = csi[w] /\ vol'[w] = vol[w]
           /\ csi[v].step = "create" /\ csi'[v].step = "record" /\ csi'[v].pool = csi[v].pool
           /\ vol[v].phase = "none"
           /\ vol'[v].phase = "intent" /\ vol'[v].pool = csi[v].pool /\ ~vol'[v].active
  <1>1. Call(v, "record") /\ csi[v].step = "create" /\ vol[v].phase = "none"
    BY Zenon DEF CreateIntent
  <1>2. "record" \in CallSteps /\ csi \in [Vols -> Calls]
    BY Zenon DEF CallSteps, TypeOK
  <1>3. [phase |-> "intent", pool |-> csi[v].pool, active |-> FALSE] \in VolumeObjects
    BY <1>2, Zenon DEF VolumeObjects, Calls
  <1> QED  BY <1>1, <1>2, <1>3, CallEffect DEF CreateIntent, TypeOK

(* Recording the intent changes neither Pool nor claim, and releases the    *)
(* lock.                                                                    *)
LEMMA RecordCreationIntentEffect ==
    ASSUME TypeOK, NEW v \in Vols, RecordCreationIntent(v), csi[v].step # "record late"
    PROVE  /\ TypeOK' /\ UNCHANGED <<mv, pool, data, mob, ctl, node>>
           /\ \A w \in Vols \ {v} : csi'[w] = csi[w] /\ vol'[w] = vol[w]
           /\ csi[v].step \in {"record", "recheck"} /\ csi'[v].step = "idle"
           /\ \A q \in Pools \ {csi[v].pool} : lock'[q] = lock[q]
           /\ vol'[v].pool = vol[v].pool /\ vol'[v].active = vol[v].active
           /\ \/ vol'[v].phase = vol[v].phase
              \/ vol[v].phase = "intent" /\ vol'[v].phase = "creating"
  <1>1. Refuse(v) /\ Unlock(csi[v].pool) /\ csi[v].step \in {"record", "recheck"}
    BY Zenon DEF RecordCreationIntent
  <1>2. vol \in [Vols -> VolumeObjects]
    BY Zenon DEF TypeOK
  <1>3. /\ vol' \in [Vols -> VolumeObjects] /\ \A w \in Vols \ {v} : vol'[w] = vol[w]
        /\ vol'[v].pool = vol[v].pool /\ vol'[v].active = vol[v].active
        /\ \/ vol'[v].phase = vol[v].phase
           \/ vol[v].phase = "intent" /\ vol'[v].phase = "creating"
    <2>1. vol' = IF vol[v].phase = "intent" THEN [vol EXCEPT ![v].phase = "creating"] ELSE vol
      BY Zenon DEF RecordCreationIntent
    <2> QED  BY <1>2, <2>1, Zenon DEF VolumeObjects
  <1> QED  BY <1>1, <1>3, RefuseEffect, UnlockEffect, Zenon DEF RecordCreationIntent, TypeOK

(* The node creates the copy in the recorded Pool.                          *)
LEMMA CreateCopyEffect ==
    ASSUME TypeOK, NEW v \in Vols, CreateCopy(v), vol[v].pool \in Pools
    PROVE  /\ TypeOK' /\ UNCHANGED <<vol, mv, pool, lock, csi, mob, ctl, node>>
           /\ vol[v].phase = "creating"
           /\ data'[vol[v].pool] = data[vol[v].pool] \cup {v}
           /\ \A q \in Pools \ {vol[v].pool} : data'[q] = data[q]
  BY DEF CreateCopy, TypeOK

(* A created volume turns Ready where it is.                                *)
LEMMA CompleteCreateEffect ==
    ASSUME TypeOK, NEW v \in Vols, CompleteCreate(v)
    PROVE  /\ TypeOK' /\ UNCHANGED <<mv, pool, data, lock, csi, mob, ctl, node>>
           /\ \A w \in Vols \ {v} : vol'[w] = vol[w]
           /\ vol[v].phase = "creating" /\ vol'[v].phase = "Ready"
           /\ vol'[v].pool = vol[v].pool /\ vol'[v].active = vol[v].active
  <1>1. vol \in [Vols -> VolumeObjects]
    BY DEF TypeOK
  <1>2. vol' = [vol EXCEPT ![v].phase = "Ready"]
    BY DEF CompleteCreate
  <1>3. /\ vol' \in [Vols -> VolumeObjects] /\ \A w \in Vols \ {v} : vol'[w] = vol[w]
        /\ vol'[v].phase = "Ready" /\ vol'[v].pool = vol[v].pool
        /\ vol'[v].active = vol[v].active
    BY <1>1, <1>2 DEF VolumeObjects
  <1> QED  BY <1>3 DEF CompleteCreate, TypeOK

(* A volume without a Move is removed as an intent or fenced for deletion.  *)
LEMMA FenceVolumeEffect ==
    ASSUME TypeOK, NEW v \in Vols, FenceVolume(v)
    PROVE  /\ TypeOK' /\ UNCHANGED <<mv, pool, data, lock, csi, mob, ctl, node>>
           /\ \A w \in Vols \ {v} : vol'[w] = vol[w]
           /\ ~vol[v].active /\ ~vol'[v].active
           /\ \/ vol[v].phase = "intent" /\ vol'[v] = NoVolume
              \/ /\ vol[v].phase \in {"creating", "Ready"} /\ vol'[v].phase = "deleting"
                 /\ vol'[v].pool = vol[v].pool
  <1>1. vol \in [Vols -> VolumeObjects]
    BY DEF TypeOK
  <1>2. /\ vol[v].phase \in {"intent", "creating", "Ready"} /\ ~vol[v].active
        /\ vol' = [vol EXCEPT ![v] = IF vol[v].phase = "intent" THEN NoVolume
                                     ELSE [vol[v] EXCEPT !.phase = "deleting"]]
    BY DEF FenceVolume
  <1>3. /\ vol' \in [Vols -> VolumeObjects] /\ \A w \in Vols \ {v} : vol'[w] = vol[w]
        /\ ~vol'[v].active
        /\ \/ vol[v].phase = "intent" /\ vol'[v] = NoVolume
           \/ /\ vol[v].phase \in {"creating", "Ready"} /\ vol'[v].phase = "deleting"
              /\ vol'[v].pool = vol[v].pool
    BY <1>1, <1>2 DEF VolumeObjects, NoVolume
  <1> QED  BY <1>2, <1>3 DEF FenceVolume, TypeOK

(* A purge only removes.                                                    *)
LEMMA PurgeCopyEffect ==
    ASSUME TypeOK, NEW v \in Vols, PurgeCopy(v), vol[v].pool \in Pools
    PROVE  /\ TypeOK' /\ UNCHANGED <<vol, mv, pool, lock, csi, mob, ctl, node>>
           /\ \A q \in Pools : data'[q] \subseteq data[q]
  BY DEF PurgeCopy, TypeOK

(* The object goes after its copy.                                          *)
LEMMA RemoveVolumeEffect ==
    ASSUME TypeOK, NEW v \in Vols, RemoveVolume(v)
    PROVE  /\ TypeOK' /\ UNCHANGED <<mv, pool, data, lock, csi, mob, ctl, node>>
           /\ \A w \in Vols \ {v} : vol'[w] = vol[w]
           /\ vol[v].phase = "deleting" /\ v \notin data[vol[v].pool] /\ vol'[v] = NoVolume
  <1>1. NoVolume \in VolumeObjects
    BY DEF NoVolume, VolumeObjects
  <1> QED  BY <1>1 DEF RemoveVolume, TypeOK

(* A Move is planned for a Ready volume without one, and claims it.         *)
LEMMA PlanMoveEffect ==
    ASSUME TypeOK, NEW v \in Vols, PlanMove(v)
    PROVE  /\ TypeOK' /\ UNCHANGED <<pool, data, lock, csi, mob, ctl, node>>
           /\ \A w \in Vols \ {v} : mv'[w] = mv[w] /\ vol'[w] = vol[w]
           /\ vol[v].phase = "Ready" /\ ~vol[v].active /\ mv[v] = NoMove /\ mob[v].step = "idle"
           /\ mv'[v].stage = "planned" /\ mv'[v].src = vol[v].pool /\ mv'[v].dst = NoPool
           /\ vol'[v].phase = vol[v].phase /\ vol'[v].pool = vol[v].pool /\ vol'[v].active
  <1>1. vol \in [Vols -> VolumeObjects] /\ mv \in [Vols -> MoveObjects]
    BY DEF TypeOK
  <1>2. /\ mv' = [mv EXCEPT ![v] = [stage |-> "planned", src |-> vol[v].pool, dst |-> NoPool]]
        /\ vol' = [vol EXCEPT ![v].active = TRUE]
    BY DEF PlanMove
  <1>3. /\ vol' \in [Vols -> VolumeObjects] /\ \A w \in Vols \ {v} : vol'[w] = vol[w]
        /\ vol'[v].phase = vol[v].phase /\ vol'[v].pool = vol[v].pool /\ vol'[v].active
    BY <1>1, <1>2, Zenon DEF VolumeObjects
  <1>4. /\ mv' \in [Vols -> MoveObjects] /\ \A w \in Vols \ {v} : mv'[w] = mv[w]
        /\ mv'[v].stage = "planned" /\ mv'[v].src = vol[v].pool /\ mv'[v].dst = NoPool
    BY <1>1, <1>2 DEF VolumeObjects, MoveObjects
  <1> QED  BY <1>3, <1>4 DEF PlanMove, TypeOK

(* A preparation locks a ready destination other than the source.           *)
LEMMA GrantPreparationEffect ==
    ASSUME TypeOK, NEW v \in Vols, GrantPreparation(v)
    PROVE  /\ TypeOK' /\ UNCHANGED <<vol, mv, pool, data, csi, ctl, node>>
           /\ \A w \in Vols \ {v} : mob'[w] = mob[w]
           /\ mob[v].step = "idle" /\ mv[v].stage = "planned" /\ vol[v].active
           /\ mob'[v].step = "volumes" /\ mob'[v].pool \in Pools \ {vol[v].pool}
           /\ PoolReady(mob'[v].pool) /\ ~lock[mob'[v].pool] /\ lock'[mob'[v].pool]
           /\ \A q \in Pools \ {mob'[v].pool} : lock'[q] = lock[q]
  <1> PICK p \in Pools \ {vol[v].pool} :
        /\ PoolReady(p) /\ Lock(p)
        /\ mob' = [mob EXCEPT ![v] = [IdleCall EXCEPT !.step = "volumes", !.pool = p]]
    BY Zenon DEF GrantPreparation
  <1>1. /\ [IdleCall EXCEPT !.step = "volumes", !.pool = p] \in Calls
        /\ [IdleCall EXCEPT !.step = "volumes", !.pool = p].step = "volumes"
        /\ [IdleCall EXCEPT !.step = "volumes", !.pool = p].pool = p
    BY IdleTypes, Zenon DEF Calls, CallSteps
  <1>2. /\ mob' \in [Vols -> Calls] /\ \A w \in Vols \ {v} : mob'[w] = mob[w]
        /\ mob'[v].step = "volumes" /\ mob'[v].pool = p
    BY <1>1 DEF TypeOK
  <1> QED  BY <1>2, LockEffect DEF GrantPreparation, TypeOK

(* Under the lock it lists the Volumes.                                     *)
LEMMA GrantListVolumesEffect ==
    ASSUME TypeOK, NEW v \in Vols, GrantListVolumes(v)
    PROVE  /\ TypeOK' /\ UNCHANGED <<vol, mv, pool, data, lock, csi, ctl, node>>
           /\ \A w \in Vols \ {v} : mob'[w] = mob[w]
           /\ mob[v].step = "volumes" /\ mob'[v].step = "moves"
           /\ mob'[v].pool = mob[v].pool /\ mob'[v].seen = Volumes
  <1>1. mob \in [Vols -> Calls] /\ Volumes \in [Vols -> Owners]
    BY VolumesType DEF TypeOK
  <1>2. mob' = [mob EXCEPT ![v].step = "moves", ![v].seen = Volumes]
    BY DEF GrantListVolumes
  <1>3. /\ mob' \in [Vols -> Calls] /\ \A w \in Vols \ {v} : mob'[w] = mob[w]
        /\ mob'[v].step = "moves" /\ mob'[v].pool = mob[v].pool /\ mob'[v].seen = Volumes
    BY <1>1, <1>2, Zenon DEF Calls, CallSteps
  <1> QED  BY <1>3 DEF GrantListVolumes, TypeOK

(* Then it lists the Moves, and holds the destination only if the volume    *)
(* fits.                                                                    *)
LEMMA GrantListMovesEffect ==
    ASSUME TypeOK, NEW v \in Vols, GrantListMoves(v), mob[v].pool \in Pools
    PROVE  /\ TypeOK' /\ UNCHANGED <<vol, pool, data, csi, ctl, node>>
           /\ \A w \in Vols \ {v} : mob'[w] = mob[w] /\ mv'[w] = mv[w]
           /\ mob[v].step = "moves" /\ mob'[v].step = "idle"
           /\ \A q \in Pools \ {mob[v].pool} : lock'[q] = lock[q]
           /\ \/ mv'[v] = mv[v]
              \/ /\ mv'[v].stage = "held" /\ mv'[v].dst = mob[v].pool /\ mv'[v].src = mv[v].src
                 /\ PreparationPoolFits(Size[v], ReservedBytesForPool(mob[v].seen, mob[v].pool),
                                        Limit[mob[v].pool])
  <1> DEFINE fits == PreparationPoolFits(Size[v],
                        ReservedBytesForPool(mob[v].seen, mob[v].pool), Limit[mob[v].pool])
  <1>1. mv' = mv \/ (fits /\ mv' = [mv EXCEPT ![v].stage = "held", ![v].dst = mob[v].pool])
    BY DEF GrantListMoves
  <1>2. mv \in [Vols -> MoveObjects]
    BY DEF TypeOK
  <1> HIDE DEF fits
  <1>3. /\ mv' \in [Vols -> MoveObjects] /\ \A w \in Vols \ {v} : mv'[w] = mv[w]
        /\ \/ mv'[v] = mv[v]
           \/ /\ mv'[v].stage = "held" /\ mv'[v].dst = mob[v].pool /\ mv'[v].src = mv[v].src
              /\ fits
    BY <1>1, <1>2 DEF MoveObjects
  <1>4. /\ mob' \in [Vols -> Calls] /\ \A w \in Vols \ {v} : mob'[w] = mob[w]
        /\ mob[v].step = "moves" /\ mob'[v].step = "idle"
    BY IdleTypes DEF GrantListMoves, TypeOK
  <1>5. Unlock(mob[v].pool) /\ UNCHANGED <<vol, pool, data, csi, ctl, node>>
    BY DEF GrantListMoves
  <1> QED  BY <1>3, <1>4, <1>5, UnlockEffect DEF TypeOK, fits

(* A hold becomes an approval of the same Pools.                            *)
LEMMA ConvertPreparationEffect ==
    ASSUME TypeOK, NEW v \in Vols, ConvertPreparation(v)
    PROVE  /\ TypeOK' /\ UNCHANGED <<vol, pool, data, lock, csi, mob, ctl, node>>
           /\ \A w \in Vols \ {v} : mv'[w] = mv[w]
           /\ mob[v].step = "idle" /\ mv[v].stage = "held" /\ ~lock[mv[v].dst]
           /\ mv'[v].stage = "approved" /\ mv'[v].src = mv[v].src /\ mv'[v].dst = mv[v].dst
  BY StageEffect DEF ConvertPreparation, TypeOK

(* An approved Move copies to its destination.                              *)
LEMMA CopyToDestinationEffect ==
    ASSUME TypeOK, NEW v \in Vols, CopyToDestination(v), mv[v].dst \in Pools
    PROVE  /\ TypeOK' /\ UNCHANGED <<vol, mv, pool, lock, csi, mob, ctl, node>>
           /\ mv[v].stage = "approved" /\ vol[v].pool = mv[v].src
           /\ data'[mv[v].dst] = data[mv[v].dst] \cup {v}
           /\ \A q \in Pools \ {mv[v].dst} : data'[q] = data[q]
  BY DEF CopyToDestination, TypeOK

(* The commit makes the destination the volume's Pool.                      *)
LEMMA CommitOwnerEffect ==
    ASSUME TypeOK, NEW v \in Vols, CommitOwner(v), mv[v].dst \in Pools
    PROVE  /\ TypeOK' /\ UNCHANGED <<mv, pool, data, lock, csi, mob, ctl, node>>
           /\ \A w \in Vols \ {v} : vol'[w] = vol[w]
           /\ mob[v].step = "idle" /\ mv[v].stage = "approved" /\ vol[v].pool = mv[v].src
           /\ ~lock[mv[v].dst] /\ vol'[v].pool = mv[v].dst
           /\ vol'[v].phase = vol[v].phase /\ vol'[v].active = vol[v].active
  <1>1. vol \in [Vols -> VolumeObjects] /\ vol' = [vol EXCEPT ![v].pool = mv[v].dst]
    BY DEF CommitOwner, TypeOK
  <1>2. /\ vol' \in [Vols -> VolumeObjects] /\ \A w \in Vols \ {v} : vol'[w] = vol[w]
        /\ vol'[v].pool = mv[v].dst
        /\ vol'[v].phase = vol[v].phase /\ vol'[v].active = vol[v].active
    BY <1>1 DEF VolumeObjects
  <1> QED  BY <1>2 DEF CommitOwner, TypeOK

(* Removing the source after the commit, or the copy at rollback, only      *)
(* removes.                                                                 *)
LEMMA RetireSourceEffect ==
    ASSUME TypeOK, NEW v \in Vols, RetireSource(v) \/ RollbackCopy(v)
    PROVE  /\ TypeOK' /\ UNCHANGED <<vol, mv, pool, lock, csi, mob, ctl, node>>
           /\ \A q \in Pools : data'[q] \subseteq data[q]
  BY DEF RetireSource, RollbackCopy, TypeOK

(* A Move whose owner is still the source may be rolled back.               *)
LEMMA RecoverSourceEffect ==
    ASSUME TypeOK, NEW v \in Vols, RecoverSource(v)
    PROVE  /\ TypeOK' /\ UNCHANGED <<vol, pool, data, lock, csi, mob, ctl, node>>
           /\ \A w \in Vols \ {v} : mv'[w] = mv[w]
           /\ mob[v].step = "idle" /\ mv[v].stage = "approved" /\ vol[v].pool = mv[v].src
           /\ mv'[v].stage = "recovering" /\ mv'[v].src = mv[v].src /\ mv'[v].dst = mv[v].dst
  BY StageEffect DEF RecoverSource, TypeOK

(* A Move settles once the copy beside the owner's is gone.                 *)
LEMMA SettleRecoveryEffect ==
    ASSUME TypeOK, NEW v \in Vols, SettleRecovery(v)
    PROVE  /\ TypeOK' /\ UNCHANGED <<vol, pool, data, lock, csi, mob, ctl, node>>
           /\ \A w \in Vols \ {v} : mv'[w] = mv[w]
           /\ \/ mv[v].stage = "recovering" /\ v \notin data[mv[v].dst]
              \/ mv[v].stage = "approved" /\ vol[v].pool = mv[v].dst /\ v \notin data[mv[v].src]
           /\ mv'[v].stage = "rolled" /\ mv'[v].src = mv[v].src /\ mv'[v].dst = mv[v].dst
  BY StageEffect DEF SettleRecovery, TypeOK

(* A hold given back leaves a Move without destination.                     *)
LEMMA ReleasePreparationEffect ==
    ASSUME TypeOK, NEW v \in Vols, ReleasePreparation(v)
    PROVE  /\ TypeOK' /\ UNCHANGED <<vol, pool, data, lock, csi, mob, ctl, node>>
           /\ \A w \in Vols \ {v} : mv'[w] = mv[w]
           /\ mob[v].step = "idle" /\ mv[v].stage = "held"
           /\ mv'[v].stage = "rolled" /\ mv'[v].src = mv[v].src /\ mv'[v].dst = NoPool
  <1>1. /\ mv \in [Vols -> MoveObjects]
        /\ mv' = [mv EXCEPT ![v].stage = "rolled", ![v].dst = NoPool]
    BY DEF ReleasePreparation, TypeOK
  <1>2. /\ mv' \in [Vols -> MoveObjects] /\ \A w \in Vols \ {v} : mv'[w] = mv[w]
        /\ mv'[v].stage = "rolled" /\ mv'[v].src = mv[v].src /\ mv'[v].dst = NoPool
    BY <1>1, Zenon DEF MoveObjects
  <1> QED  BY <1>2 DEF ReleasePreparation, TypeOK

(* The claim is released by a Move that holds nothing, or whose source is   *)
(* gone.                                                                    *)
LEMMA ReleaseClaimEffect ==
    ASSUME TypeOK, NEW v \in Vols, ReleaseClaim(v)
    PROVE  /\ TypeOK' /\ UNCHANGED <<mv, pool, data, lock, csi, mob, ctl, node>>
           /\ \A w \in Vols \ {v} : vol'[w] = vol[w]
           /\ mob[v].step = "idle"
           /\ \/ mv[v].stage \in {"planned", "rolled"}
              \/ mv[v].stage = "approved" /\ vol[v].pool = mv[v].dst /\ v \notin data[mv[v].src]
           /\ vol'[v].phase = vol[v].phase /\ vol'[v].pool = vol[v].pool /\ ~vol'[v].active
  <1>1. vol \in [Vols -> VolumeObjects] /\ vol' = [vol EXCEPT ![v].active = FALSE]
    BY DEF ReleaseClaim, TypeOK
  <1>2. /\ vol' \in [Vols -> VolumeObjects] /\ \A w \in Vols \ {v} : vol'[w] = vol[w]
        /\ vol'[v].phase = vol[v].phase /\ vol'[v].pool = vol[v].pool /\ ~vol'[v].active
    BY <1>1, Zenon DEF VolumeObjects
  <1> QED  BY <1>2 DEF ReleaseClaim, TypeOK

(* A Move's record goes after its claim.                                    *)
LEMMA SettleMoveEffect ==
    ASSUME TypeOK, NEW v \in Vols, SettleMove(v)
    PROVE  /\ TypeOK' /\ UNCHANGED <<vol, pool, data, lock, csi, mob, ctl, node>>
           /\ \A w \in Vols \ {v} : mv'[w] = mv[w]
           /\ mob[v].step = "idle" /\ ~vol[v].active /\ mv'[v] = NoMove
  <1>1. NoMove \in MoveObjects
    BY DEF NoMove, MoveObjects
  <1> QED  BY <1>1 DEF SettleMove, TypeOK

(* A pass that fails releases its lock.                                     *)
LEMMA PassFailsEffect ==
    ASSUME TypeOK, NEW v \in Vols, PassFails(v)
    PROVE  /\ TypeOK' /\ UNCHANGED <<vol, mv, pool, data, csi, ctl, node>>
           /\ \A w \in Vols \ {v} : mob'[w] = mob[w]
           /\ mob[v].step # "idle" /\ mob'[v].step = "idle"
           /\ \A q \in Pools \ {mob[v].pool} : lock'[q] = lock[q]
  <1>1. /\ mob' \in [Vols -> Calls] /\ \A w \in Vols \ {v} : mob'[w] = mob[w]
        /\ mob'[v].step = "idle"
    BY IdleTypes DEF PassFails, TypeOK
  <1> QED  BY <1>1, UnlockEffect DEF PassFails, TypeOK

(* The operator takes a Pool out of service, and nothing puts it back.      *)
LEMMA OperatorEffect ==
    ASSUME TypeOK, NEW p \in Pools, DeletePool(p) \/ RequestRetirement(p)
    PROVE  /\ TypeOK' /\ UNCHANGED <<vol, mv, data, lock, csi, mob, ctl, node>>
           /\ \A q \in Pools :
                /\ pool'[q].marker = pool[q].marker /\ pool'[q].retired = pool[q].retired
                /\ pool'[q].approval = pool[q].approval
                /\ pool'[q].phase = "gone" <=> pool[q].phase = "gone"
                /\ PoolReady(q)' => PoolReady(q)
  <1>1. pool \in [Pools -> PoolObjects]
    BY DEF TypeOK
  <1>2. \/ /\ pool' = [pool EXCEPT ![p].phase = "deleting", ![p].current = FALSE]
           /\ pool[p].phase = "live"
        \/ pool' = [pool EXCEPT ![p].request = TRUE]
    BY DEF DeletePool, RequestRetirement
  <1>3. /\ pool' \in [Pools -> PoolObjects] /\ \A q \in Pools \ {p} : pool'[q] = pool[q]
        /\ pool'[p].marker = pool[p].marker /\ pool'[p].retired = pool[p].retired
        /\ pool'[p].approval = pool[p].approval
        /\ pool'[p].phase = "gone" <=> pool[p].phase = "gone"
        /\ pool'[p].phase = "live" => pool[p].phase = "live"
        /\ ~pool'[p].request => ~pool[p].request
    <2>1. CASE /\ pool' = [pool EXCEPT ![p].phase = "deleting", ![p].current = FALSE]
               /\ pool[p].phase = "live"
      <3>1. pool[p] \in PoolObjects /\ pool'[p] = [pool[p] EXCEPT !.phase = "deleting", !.current = FALSE]
            /\ \A q \in Pools \ {p} : pool'[q] = pool[q]
        BY <1>1, <2>1
      <3>2. [pool[p] EXCEPT !.phase = "deleting", !.current = FALSE] \in PoolObjects
        BY <3>1, Zenon DEF PoolObjects
      <3>3. pool' \in [Pools -> PoolObjects]
        BY <1>1, <2>1, <3>1, <3>2
      <3> QED  BY <2>1, <3>1, <3>3 DEF PoolObjects
    <2>2. CASE pool' = [pool EXCEPT ![p].request = TRUE]
      BY <1>1, <2>2, Zenon DEF PoolObjects
    <2> QED  BY <1>2, <2>1, <2>2
  <1> QED  BY <1>3 DEF DeletePool, RequestRetirement, TypeOK, PoolReady

(* The release of a Pool begins with one that is not ready.                 *)
LEMMA ListPoolRegistrationsEffect ==
    ASSUME TypeOK, NEW p \in Pools, ListPoolRegistrations(p)
    PROVE  /\ TypeOK' /\ UNCHANGED <<vol, mv, pool, data, lock, csi, mob, node>>
           /\ ctl.step = "idle" /\ ctl'.step = "lock" /\ ctl'.pool = p /\ ~PoolReady(p)
  <1>1. pool \in [Pools -> PoolObjects]
    BY DEF TypeOK
  <1>2. PICK retire \in BOOLEAN :
            /\ ctl' = [IdleControl EXCEPT !.step = "lock", !.pool = p, !.retire = retire,
                          !.approval = pool[p].approval, !.released = pool[p].released]
            /\ pool[p].request \/ pool[p].phase = "deleting"
    BY <1>1, Zenon DEF ListPoolRegistrations, PoolObjects
  <1>3. ctl' \in Controls /\ ctl'.step = "lock" /\ ctl'.pool = p
    BY <1>1, <1>2, IdleTypes, Zenon DEF Controls, PoolObjects
  <1>4. ~PoolReady(p)
    BY <1>2 DEF PoolReady
  <1> QED  BY <1>3, <1>4 DEF ListPoolRegistrations, TypeOK

(* It takes the Pool's lock.                                                *)
LEMMA LockForReleaseEffect ==
    ASSUME TypeOK, LockForRelease, ctl.pool \in Pools
    PROVE  /\ TypeOK' /\ UNCHANGED <<vol, mv, pool, data, csi, mob, node>>
           /\ ctl.step = "lock" /\ ctl'.step = "volumes" /\ ctl'.pool = ctl.pool
           /\ ~lock[ctl.pool] /\ lock'[ctl.pool]
           /\ \A q \in Pools \ {ctl.pool} : lock'[q] = lock[q]
  <1>1. ctl' \in Controls /\ ctl'.step = "volumes" /\ ctl'.pool = ctl.pool
    BY DEF LockForRelease, TypeOK, Controls
  <1> QED  BY <1>1, LockEffect DEF LockForRelease, TypeOK

(* It lists the Volumes that name the Pool.                                 *)
LEMMA CheckVolumesEffect ==
    ASSUME TypeOK, CheckVolumes, ctl.pool \in Pools
    PROVE  /\ TypeOK' /\ UNCHANGED <<vol, mv, pool, data, lock, csi, mob, node>>
           /\ ctl.step = "volumes" /\ ctl'.step = "moves" /\ ctl'.pool = ctl.pool
           /\ ~ctl'.used => \A v \in Vols : vol[v].pool # ctl.pool
  <1>1. ctl \in Controls /\ InventoryClear(ctl.pool) \in BOOLEAN
    BY DEF TypeOK, InventoryClear, PoolObjects
  <1>2. PICK used \in BOOLEAN :
            /\ ctl' = [ctl EXCEPT !.step = "moves", !.clear = InventoryClear(ctl.pool),
                          !.used = used]
            /\ used <=> \E v \in Vols : vol[v].pool = ctl.pool
    BY Zenon DEF CheckVolumes, VolumeUsesPool
  <1>3. ctl' \in Controls /\ ctl'.step = "moves" /\ ctl'.pool = ctl.pool /\ ctl'.used = used
    BY <1>1, <1>2, Zenon DEF Controls
  <1> QED  BY <1>2, <1>3, Zenon DEF CheckVolumes, TypeOK

(* It writes the Pool only if no Volume it listed and no Move names it.     *)
LEMMA ReleaseStepEffect ==
    ASSUME TypeOK, ReleaseStep, ctl.pool \in Pools
    PROVE  /\ TypeOK' /\ UNCHANGED <<vol, mv, data, csi, mob, node>>
           /\ ctl.step = "moves" /\ ctl'.step = "idle"
           /\ \A q \in Pools \ {ctl.pool} : lock'[q] = lock[q] /\ pool'[q] = pool[q]
           /\ \/ pool' = pool
              \/ ~ctl.used /\ UnreferencedByMoves(ctl.pool)
           /\ \A q \in Pools : PoolReady(q)' => PoolReady(q)
  <1>1. pool \in [Pools -> PoolObjects] /\ ctl \in Controls
    BY DEF TypeOK
  <1>2. \/ pool' = pool
        \/ /\ ~ctl.used /\ UnreferencedByMoves(ctl.pool)
           /\ \/ pool' = ApprovePoolRetirement(ctl.pool)
              \/ pool' = ApprovePoolIdentityRelease(ctl.pool)
              \/ pool' = RemovePoolFinalizer(ctl.pool)
    BY DEF ReleaseStep
  <1>3. [Registered EXCEPT !.phase = "gone", !.marker = pool[ctl.pool].marker,
                           !.current = FALSE] \in PoolObjects
    BY <1>1, Zenon DEF Registered, PoolObjects
  <1>4. pool' \in [Pools -> PoolObjects] /\ \A q \in Pools \ {ctl.pool} : pool'[q] = pool[q]
    <2>1. CASE pool' = ApprovePoolRetirement(ctl.pool)
      <3> pool[ctl.pool] \in PoolObjects
        BY <1>1
      <3>1. [pool[ctl.pool] EXCEPT !.retired = TRUE] \in PoolObjects
        BY Zenon DEF PoolObjects
      <3>2. pool' = [pool EXCEPT ![ctl.pool] = [pool[ctl.pool] EXCEPT !.retired = TRUE]]
        BY <2>1, Zenon DEF ApprovePoolRetirement
      <3> QED  BY <1>1, <3>1, <3>2
    <2>2. CASE pool' = ApprovePoolIdentityRelease(ctl.pool)
      <3> pool[ctl.pool] \in PoolObjects
        BY <1>1
      <3>1. [pool[ctl.pool] EXCEPT !.approval = TRUE] \in PoolObjects
        BY Zenon DEF PoolObjects
      <3>2. pool' = [pool EXCEPT ![ctl.pool] = [pool[ctl.pool] EXCEPT !.approval = TRUE]]
        BY <2>2, Zenon DEF ApprovePoolIdentityRelease
      <3> QED  BY <1>1, <3>1, <3>2
    <2>3. CASE pool' = RemovePoolFinalizer(ctl.pool)
      BY <1>1, <1>3, <2>3 DEF RemovePoolFinalizer
    <2> QED  BY <1>1, <1>2, <2>1, <2>2, <2>3
  <1>5. ASSUME NEW q \in Pools PROVE PoolReady(q)' => PoolReady(q)
    <2>1. CASE pool' = ApprovePoolRetirement(ctl.pool) \/ pool' = ApprovePoolIdentityRelease(ctl.pool)
      BY <1>1, <2>1
        DEF ApprovePoolRetirement, ApprovePoolIdentityRelease, PoolReady, PoolObjects
    <2>2. CASE pool' = RemovePoolFinalizer(ctl.pool)
      <3>1. pool'[ctl.pool].phase = "gone"
        BY <1>1, <2>2 DEF RemovePoolFinalizer, Registered
      <3> QED  BY <1>4, <3>1 DEF PoolReady
    <2>3. CASE pool' = pool
      BY <2>3 DEF PoolReady
    <2> QED  BY <1>2, <2>1, <2>2, <2>3
  <1>6. /\ Unlock(ctl.pool) /\ ctl' = IdleControl /\ ctl.step = "moves"
        /\ UNCHANGED <<vol, mv, data, csi, mob, node>>
    BY DEF ReleaseStep
  <1> QED  BY <1>2, <1>4, <1>5, <1>6, IdleTypes, UnlockEffect DEF TypeOK

(* A report of the node leaves what the controller has written.             *)
LEMMA ReportInventoryEffect ==
    ASSUME TypeOK, NEW p \in Pools, ReportInventory(p)
    PROVE  /\ TypeOK' /\ UNCHANGED <<vol, mv, data, lock, csi, mob, ctl, node>>
           /\ \A q \in Pools :
                /\ pool'[q].marker = pool[q].marker /\ pool'[q].retired = pool[q].retired
                /\ pool'[q].approval = pool[q].approval /\ pool'[q].phase = pool[q].phase
                /\ PoolReady(q)' => PoolReady(q)
  <1>1. pool \in [Pools -> PoolObjects] /\ data[p] \in SUBSET Vols
    BY DEF TypeOK
  <1>2. PICK inventory \in SUBSET Vols :
          pool' = [pool EXCEPT ![p].current = ~pool[p].retired, ![p].inventory = inventory]
    BY <1>1, Zenon DEF ReportInventory
  <1>3. /\ pool' \in [Pools -> PoolObjects] /\ \A q \in Pools \ {p} : pool'[q] = pool[q]
        /\ pool'[p].marker = pool[p].marker /\ pool'[p].retired = pool[p].retired
        /\ pool'[p].approval = pool[p].approval /\ pool'[p].phase = pool[p].phase
        /\ pool'[p].request = pool[p].request
    <2> DEFINE next == [pool[p] EXCEPT !.current = ~pool[p].retired, !.inventory = inventory]
    <2>1. pool[p] \in PoolObjects /\ pool'[p] = next /\ \A q \in Pools \ {p} : pool'[q] = pool[q]
      BY <1>1, <1>2
    <2>2. next \in PoolObjects
      BY <2>1, Zenon DEF PoolObjects
    <2>3. pool' \in [Pools -> PoolObjects]
      BY <1>1, <1>2, <2>1, <2>2
    <2> QED  BY <2>1, <2>3 DEF PoolObjects
  <1> QED  BY <1>3 DEF ReportInventory, TypeOK, PoolReady

(* The node reads the Pool's approval.                                      *)
LEMMA ObservePoolEffect ==
    ASSUME TypeOK, NEW p \in Pools, ObservePool(p)
    PROVE  /\ TypeOK' /\ UNCHANGED <<vol, mv, pool, data, lock, csi, mob, ctl>>
           /\ \A q \in Pools \ {p} : node'[q] = node[q]
           /\ node'[p].approval = pool[p].approval
  <1>1. pool \in [Pools -> PoolObjects] /\ node \in [Pools -> Observations]
        /\ data[p] \in SUBSET Vols
    BY DEF TypeOK
  <1>2. node' = [node EXCEPT ![p] = [IdleNode EXCEPT !.step = "observed",
                    !.approval = pool[p].approval, !.copies = data[p]]]
    BY DEF ObservePool
  <1>3. /\ node' \in [Pools -> Observations] /\ \A q \in Pools \ {p} : node'[q] = node[q]
        /\ node'[p].approval = pool[p].approval
    BY <1>1, <1>2, IdleTypes, Zenon DEF Observations, PoolObjects
  <1> QED  BY <1>3 DEF ObservePool, TypeOK

(* The node gives the identity up only with an approval it has read.        *)
LEMMA RecordIdentityReleaseEffect ==
    ASSUME TypeOK, NEW p \in Pools, RecordIdentityRelease(p)
    PROVE  /\ TypeOK' /\ UNCHANGED <<vol, mv, data, lock, csi, mob, ctl>>
           /\ \A q \in Pools :
                /\ pool'[q].marker # pool[q].marker => q = p /\ node[p].approval
                /\ pool'[q].retired = pool[q].retired /\ pool'[q].approval = pool[q].approval
                /\ pool'[q].phase = pool[q].phase /\ node'[q].approval = node[q].approval
                /\ PoolReady(q)' => PoolReady(q)
  <1>1. pool \in [Pools -> PoolObjects] /\ node \in [Pools -> Observations]
    BY DEF TypeOK
  <1>2. PICK released \in BOOLEAN :
          /\ released => node[p].approval
          /\ node' = [node EXCEPT ![p].step = "released", ![p].released = released]
          /\ pool' = IF released THEN [pool EXCEPT ![p].marker = FALSE] ELSE pool
    <2> DEFINE released == node[p].approval /\ node[p].copies = {} /\ ReleaseEmptyPool(p)
    <2>1. released \in BOOLEAN /\ (released => node[p].approval)
      BY <1>1 DEF Observations
    <2>2. /\ node' = [node EXCEPT ![p].step = "released", ![p].released = released]
          /\ pool' = IF released THEN [pool EXCEPT ![p].marker = FALSE] ELSE pool
      BY DEF RecordIdentityRelease
    <2> HIDE DEF released
    <2> QED  BY <2>1, <2>2, Zenon
  <1>3. /\ node' \in [Pools -> Observations]
        /\ \A q \in Pools : node'[q].approval = node[q].approval
    BY <1>1, <1>2, Zenon DEF Observations
  <1>4. /\ pool' \in [Pools -> PoolObjects] /\ \A q \in Pools \ {p} : pool'[q] = pool[q]
        /\ pool'[p].marker # pool[p].marker => node[p].approval
        /\ pool'[p].retired = pool[p].retired /\ pool'[p].request = pool[p].request
        /\ pool'[p].approval = pool[p].approval /\ pool'[p].phase = pool[p].phase
    BY <1>1, <1>2, ZenonT(40) DEF PoolObjects
  <1> QED  BY <1>3, <1>4, Zenon DEF RecordIdentityRelease, TypeOK, PoolReady

(* A status write leaves what the controller has written.                   *)
LEMMA SetPoolStatusEffect ==
    ASSUME TypeOK, NEW p \in Pools, SetPoolStatus(p)
    PROVE  /\ TypeOK' /\ UNCHANGED <<vol, mv, data, lock, csi, mob, ctl>>
           /\ \A q \in Pools :
                /\ pool'[q].marker = pool[q].marker /\ pool'[q].retired = pool[q].retired
                /\ pool'[q].approval = pool[q].approval /\ pool'[q].phase = pool[q].phase
                /\ node'[q].approval => node[q].approval
                /\ PoolReady(q)' => PoolReady(q)
  <1>1. pool \in [Pools -> PoolObjects] /\ node \in [Pools -> Observations]
    BY DEF TypeOK
  <1>2. node[p].released \in BOOLEAN /\ node[p].copies \in SUBSET Vols
    BY <1>1 DEF Observations
  <1>3. /\ \/ pool' = pool
           \/ pool' = [pool EXCEPT ![p].released = node[p].released, ![p].current = TRUE,
                                   ![p].inventory = node[p].copies]
        /\ node' = [node EXCEPT ![p] = IdleNode]
    BY DEF SetPoolStatus
  <1>4. /\ pool' \in [Pools -> PoolObjects] /\ \A q \in Pools \ {p} : pool'[q] = pool[q]
        /\ pool'[p].marker = pool[p].marker /\ pool'[p].retired = pool[p].retired
        /\ pool'[p].approval = pool[p].approval /\ pool'[p].phase = pool[p].phase
        /\ pool'[p].request = pool[p].request
    BY <1>1, <1>2, <1>3 DEF PoolObjects
  <1>5. /\ node' \in [Pools -> Observations] /\ \A q \in Pools \ {p} : node'[q] = node[q]
        /\ ~node'[p].approval
    BY <1>1, <1>3, IdleTypes
  <1> QED  BY <1>4, <1>5, Zenon DEF SetPoolStatus, TypeOK, PoolReady

(* A call that fails releases the lock it holds.                            *)
LEMMA CallFailsEffect ==
    ASSUME TypeOK, NEW v \in Vols, CallFails(v)
    PROVE  /\ TypeOK' /\ UNCHANGED <<vol, mv, pool, data, mob, ctl, node>>
           /\ \A w \in Vols \ {v} : csi'[w] = csi[w]
           /\ csi'[v].step = "idle"
           /\ IF HoldsLock(v) THEN \A q \in Pools \ {csi[v].pool} : lock'[q] = lock[q]
                              ELSE lock' = lock
  <1>1. /\ csi' \in [Vols -> Calls] /\ \A w \in Vols \ {v} : csi'[w] = csi[w]
        /\ csi'[v].step = "idle"
    BY RefuseEffect DEF CallFails, TypeOK
  <1>2. CASE HoldsLock(v)
    BY <1>1, <1>2, UnlockEffect DEF CallFails, TypeOK
  <1>3. CASE ~HoldsLock(v)
    BY <1>1, <1>3 DEF CallFails, TypeOK
  <1> QED  BY <1>2, <1>3

(* A restart of the controller ends all its work.                           *)
LEMMA RestartEffect ==
    ASSUME TypeOK, Restart
    PROVE  /\ TypeOK' /\ UNCHANGED <<vol, mv, pool, data, node>>
           /\ \A v \in Vols : csi'[v].step = "idle" /\ mob'[v].step = "idle"
           /\ ctl'.step = "idle"
  BY IdleTypes DEF Restart, TypeOK

-----------------------------------------------------------------------------
(* Steps that leave a conjunct of the invariant alone.                      *)

(* What a call relies on is kept by a step that leaves the call alone.      *)
LEMMA CalledFrame ==
    ASSUME NEW v \in Vols, Called(v), csi'[v] = csi[v], vol[v].phase = "none" => vol'[v].phase = "none",
           mv'[v].stage \in HoldStages => mv[v].stage \in HoldStages
    PROVE  Called(v)'
  BY Zenon DEF Called

(* Where a volume is placed is kept by a step that leaves it alone.         *)
LEMMA PlacedFrame ==
    ASSUME NEW v \in Vols, Placed(v), vol'[v] = vol[v], mv'[v] = mv[v], mob'[v] = mob[v]
    PROVE  Placed(v)'
  BY DEF Placed

(* The Pool a Move charges beside the owner's, now and after a step.        *)
LEMMA HeldPools ==
    ASSUME NEW v \in Vols
    PROVE  /\ HeldPool(Volumes, v) =
                CASE mv[v].stage = "held" -> mv[v].dst
                  [] mv[v].stage \in {"approved", "recovering"} ->
                        IF vol[v].pool = mv[v].dst THEN mv[v].src ELSE mv[v].dst
                  [] OTHER -> NoPool
           /\ HeldPool(Volumes, v)' =
                CASE mv'[v].stage = "held" -> mv'[v].dst
                  [] mv'[v].stage \in {"approved", "recovering"} ->
                        IF vol'[v].pool = mv'[v].dst THEN mv'[v].src ELSE mv'[v].dst
                  [] OTHER -> NoPool
  BY DEF HeldPool, Volumes

(* A copy stays accounted for when nothing is copied and no record changes. *)
LEMMA CopiedFrame ==
    ASSUME TypeOK, NEW v \in Vols, Copied(v), vol'[v] = vol[v], mv'[v] = mv[v],
           mv[v].stage = "approved" => mv[v].src \in Pools,
           \A p \in Pools : v \in data'[p] => v \in data[p]
    PROVE  Copied(v)'
  <1>1. HeldPool(Volumes, v)' = HeldPool(Volumes, v)
    BY HeldPools
  <1> QED  BY <1>1 DEF Copied

(* The steps that change neither a Volume, nor a Move, nor a call.          *)
LEMMA QuietSteps ==
    /\ \A v \in Vols : \/ CreateCopy(v) \/ PurgeCopy(v) \/ CopyToDestination(v) \/ RetireSource(v)
                       \/ RollbackCopy(v) \/ GrantPreparation(v) \/ GrantListVolumes(v)
                       \/ PassFails(v)
                       => UNCHANGED <<vol, mv, csi>>
    /\ Lifecycle => UNCHANGED <<vol, mv, data, csi, mob>>
    /\ UNCHANGED vars => UNCHANGED <<vol, mv, data, csi, mob, lock, ctl, pool, node>>
  BY Zenon DEF CreateCopy, PurgeCopy, CopyToDestination, RetireSource, RollbackCopy,
       GrantPreparation,
      GrantListVolumes, PassFails, Lifecycle, DeletePool, RequestRetirement, ListPoolRegistrations,
      ReportInventory, ObservePool, RecordIdentityRelease, SetPoolStatus, LockForRelease,
      CheckVolumes, ReleaseStep, vars

(* The steps that change neither a Volume, nor a Move, nor a mobility pass. *)
LEMMA StillSteps ==
    \A v \in Vols :
        /\ \/ CreateVolume(v) \/ LockPool(v) \/ ListVolumes(v) \/ PoolFits(v) \/ BeginCreate(v)
           \/ CallFails(v)
           => UNCHANGED <<vol, mv, data, mob>>
        /\ \/ CreateCopy(v) \/ PurgeCopy(v) \/ CopyToDestination(v) \/ RetireSource(v)
           \/ RollbackCopy(v)
           => UNCHANGED <<vol, mv, mob>>
  BY Zenon
    DEF CreateVolume, LockPool, ListVolumes, PoolFits, BeginCreate, CallFails, CreateCopy,
      PurgeCopy, CopyToDestination, RetireSource, RollbackCopy

(* The steps that neither take a lock, nor release one, nor hold one.       *)
LEMMA FreeSteps ==
    /\ \A v \in Vols : \/ CreateCopy(v) \/ CompleteCreate(v) \/ FenceVolume(v) \/ PurgeCopy(v)
                       \/ RemoveVolume(v) \/ PlanMove(v) \/ ConvertPreparation(v)
                       \/ CopyToDestination(v) \/ CommitOwner(v) \/ RetireSource(v)
                       \/ RecoverSource(v) \/ RollbackCopy(v) \/ SettleRecovery(v)
                       \/ ReleasePreparation(v) \/ ReleaseClaim(v) \/ SettleMove(v)
                       => UNCHANGED <<lock, csi, mob, ctl, pool, node>>
    /\ \A p \in Pools : \/ DeletePool(p) \/ RequestRetirement(p) \/ ReportInventory(p)
                        \/ ObservePool(p) \/ RecordIdentityRelease(p) \/ SetPoolStatus(p)
                        => UNCHANGED <<lock, csi, mob, ctl>>
  BY Zenon DEF CreateCopy, CompleteCreate, FenceVolume, PurgeCopy, RemoveVolume, PlanMove,
      ConvertPreparation, CopyToDestination, CommitOwner, RetireSource, RecoverSource,
      RollbackCopy, SettleRecovery, ReleasePreparation, ReleaseClaim, SettleMove, DeletePool,
      RequestRetirement, ReportInventory, ObservePool, RecordIdentityRelease, SetPoolStatus

(* The holders of the locks are kept by a step that leaves them alone.      *)
LEMMA LockFrame ==
    ASSUME LockInv, UNCHANGED <<lock, csi, mob, ctl>>
    PROVE  LockInv'
  BY DEF LockInv, Locked, CallsApart, PassesApart, CallsFromPasses, ReleaseApart, HoldsLock,
         Passing, Releasing

-----------------------------------------------------------------------------
(* Each conjunct is kept by each action.                                    *)

(* Every step keeps what a call relies on.                                  *)
LEMMA CalledStep ==
    ASSUME IInv, ~LateResume, [Next]_vars, NEW w \in Vols
    PROVE  Called(w)'
  <1> USE DEF IInv
  <1>1. ASSUME NEW v \in Vols, CreateVolume(v) PROVE Called(w)'
    <2>1. CASE w = v
      BY <1>1, <2>1, CreateVolumeEffect, Zenon DEF Called, Placed, TypeOK, VolumeObjects
    <2> QED  BY <1>1, <2>1, CreateVolumeEffect, CalledFrame
  <1>2. ASSUME NEW v \in Vols, LockPool(v) PROVE Called(w)'
    <2>1. csi[v].pool \in Pools
      BY <1>2, Zenon DEF Called, LockPool
    <2>2. CASE w = v
      BY <1>2, <2>1, <2>2, LockPoolEffect, Zenon DEF Called
    <2> QED  BY <1>2, <2>1, <2>2, LockPoolEffect, CalledFrame
  <1>3. ASSUME NEW v \in Vols, ListVolumes(v) PROVE Called(w)'
    <2>1. CASE w = v
      <3>1. vol[v].phase = "none" => ~Volumes[v].active
        BY DEF Placed, Volumes
      <3> QED  BY <1>3, <2>1, <3>1, ListVolumesEffect, Zenon DEF Called
    <2> QED  BY <1>3, <2>1, ListVolumesEffect, CalledFrame
  <1>4. ASSUME NEW v \in Vols, PoolFits(v) PROVE Called(w)'
    <2>1. CASE w = v
      BY <1>4, <2>1, PoolFitsEffect, ZenonT(40) DEF Called, LedgerReadable, HoldStages
    <2> QED  BY <1>4, <2>1, PoolFitsEffect, CalledFrame
  <1>5. ASSUME NEW v \in Vols, BeginCreate(v) PROVE Called(w)'
    <2>1. csi[v].step # "resume"
      BY Zenon DEF Called
    <2>2. CASE w = v
      BY <1>5, <2>1, <2>2, BeginCreateEffect, Zenon DEF Called
    <2> QED  BY <1>5, <2>1, <2>2, BeginCreateEffect, CalledFrame
  <1>6. ASSUME NEW v \in Vols, CreateIntent(v) PROVE Called(w)'
    <2>1. csi[v].step # "create late"
      BY Zenon DEF Called
    <2>2. CASE w = v
      BY <1>6, <2>1, <2>2, CreateIntentEffect, Zenon DEF Called
    <2> QED  BY <1>6, <2>1, <2>2, CreateIntentEffect, CalledFrame, Zenon
  <1>7. ASSUME NEW v \in Vols, RecordCreationIntent(v) PROVE Called(w)'
    <2>1. csi[v].step # "record late"
      BY Zenon DEF Called
    <2>2. CASE w = v
      BY <1>7, <2>1, <2>2, RecordCreationIntentEffect, Zenon DEF Called
    <2>3. CASE w # v
      <3>1. csi'[w] = csi[w] /\ vol'[w] = vol[w] /\ mv'[w] = mv[w]
        BY <1>7, <2>1, <2>3, RecordCreationIntentEffect, Zenon
      <3> QED  BY <3>1, CalledFrame
    <2> QED  BY <2>2, <2>3
  <1>8. ASSUME NEW v \in Vols, CallFails(v) PROVE Called(w)'
    <2>1. CASE w = v
      BY <1>8, <2>1, CallFailsEffect, Zenon DEF Called
    <2> QED  BY <1>8, <2>1, CallFailsEffect, CalledFrame
  <1>9. ASSUME NEW v \in Vols, CompleteCreate(v) \/ FenceVolume(v) \/ RemoveVolume(v)
        PROVE Called(w)'
    <2>1. csi'[w] = csi[w] /\ mv'[w] = mv[w] /\ (vol[w].phase = "none" => vol'[w].phase = "none")
      BY <1>9, CompleteCreateEffect, FenceVolumeEffect, RemoveVolumeEffect
    <2> QED  BY <2>1, CalledFrame
  <1>10. ASSUME NEW v \in Vols, PlanMove(v) \/ ReleaseClaim(v) PROVE Called(w)'
    <2>1. /\ csi'[w] = csi[w] /\ (vol[w].phase = "none" => vol'[w].phase = "none")
          /\ mv'[w].stage \in {mv[w].stage, "planned"}
      <3>1. CASE PlanMove(v)
        BY <3>1, PlanMoveEffect
      <3>2. CASE ReleaseClaim(v)
        BY <3>2, ReleaseClaimEffect
      <3> QED  BY <1>10, <3>1, <3>2
    <2> QED  BY <2>1, CalledFrame DEF HoldStages
  <1>11. ASSUME NEW v \in Vols, CommitOwner(v) PROVE Called(w)'
    <2>1. mv[v].dst \in Pools
      BY <1>11 DEF CommitOwner, Placed, HoldStages
    <2> QED  BY <1>11, <2>1, CommitOwnerEffect, CalledFrame
  <1>12. ASSUME NEW v \in Vols, GrantListMoves(v) PROVE Called(w)'
    <2>1. mob[v].pool \in Pools /\ vol[v].phase = "Ready"
      BY <1>12 DEF GrantListMoves, Placed
    <2>2. CASE w = v
      BY <1>12, <2>1, <2>2, GrantListMovesEffect, ZenonT(30) DEF Called
    <2> QED  BY <1>12, <2>1, <2>2, GrantListMovesEffect, CalledFrame
  <1>13. ASSUME NEW v \in Vols, ConvertPreparation(v) \/ RecoverSource(v) PROVE Called(w)'
    BY <1>13, ConvertPreparationEffect, RecoverSourceEffect, CalledFrame DEF HoldStages
  <1>14. ASSUME NEW v \in Vols, SettleRecovery(v) \/ ReleasePreparation(v) \/ SettleMove(v)
         PROVE Called(w)'
    BY <1>14, SettleRecoveryEffect, ReleasePreparationEffect, SettleMoveEffect, CalledFrame
       DEF HoldStages, NoMove
  <1>15. CASE Restart
    BY <1>15, RestartEffect, Zenon DEF Called
  <1>16. CASE UNCHANGED <<vol, mv, csi>>
    BY <1>16, CalledFrame
  <1> QED
    BY <1>1, <1>2, <1>3, <1>4, <1>5, <1>6, <1>7, <1>8, <1>9, <1>10, <1>11, <1>12, <1>13,
       <1>14, <1>15, <1>16, QuietSteps, AdmissionAssumption DEF Next, Creation, Existence, Movement

(* Every step keeps the placement of a volume and its Move.                 *)
LEMMA PlacedStep ==
    ASSUME IInv, ~LateResume, [Next]_vars, NEW w \in Vols
    PROVE  Placed(w)'
  <1>0. TypeOK /\ \A v \in Vols : Called(v) /\ Placed(v)
    BY DEF IInv
  <1>1. ASSUME NEW v \in Vols, CreateIntent(v) PROVE Placed(w)'
    <2>1. csi[v].step # "create late"
      BY <1>0, Zenon DEF Called
    <2>2. CASE w = v
      <3>1. mv[v].stage \notin HoldStages /\ csi[v].pool \in Pools
        BY <1>0, <1>1, Zenon DEF Called, CreateIntent
      <3>2. csi[v].pool # NoPool
        BY <3>1, AdmissionAssumption
      <3>3. /\ vol'[v].phase = "intent" /\ vol'[v].pool = csi[v].pool /\ ~vol'[v].active
            /\ vol[v].phase = "none" /\ mv' = mv /\ mob' = mob
        BY <1>0, <1>1, <2>1, CreateIntentEffect, Zenon
      <3>4. vol'[v].phase # "none" /\ ~vol[v].active /\ mob[v].step = "idle"
        BY <1>0, <3>3 DEF Placed
      <3>5. mv[v].stage \notin {"held", "recovering"} /\ mv[v].stage # "approved"
        BY <3>1 DEF HoldStages
      <3> QED  BY <1>0, <2>2, <3>1, <3>2, <3>3, <3>4, <3>5, ZenonT(40) DEF Placed
    <2>3. CASE w # v
      BY <1>0, <1>1, <2>1, <2>3, CreateIntentEffect, PlacedFrame, Zenon
    <2> QED  BY <2>2, <2>3
  <1>2. ASSUME NEW v \in Vols, RecordCreationIntent(v) PROVE Placed(w)'
    <2>1. csi[v].step # "record late"
      BY <1>0, Zenon DEF Called
    <2>2. CASE w = v
      <3>1. /\ mv' = mv /\ mob' = mob /\ vol'[v].pool = vol[v].pool
            /\ vol'[v].active = vol[v].active
            /\ \/ vol'[v].phase = vol[v].phase
               \/ vol[v].phase = "intent" /\ vol'[v].phase = "creating"
        BY <1>0, <1>2, <2>1, RecordCreationIntentEffect, Zenon
      <3>2. CASE vol'[v].phase = vol[v].phase
        BY <1>0, <2>2, <3>1, <3>2 DEF Placed
      <3>3. CASE vol[v].phase = "intent" /\ vol'[v].phase = "creating"
        BY <1>0, <2>2, <3>1, <3>3 DEF Placed
      <3> QED  BY <3>1, <3>2, <3>3
    <2>3. CASE w # v
      BY <1>0, <1>2, <2>1, <2>3, RecordCreationIntentEffect, PlacedFrame, Zenon
    <2> QED  BY <2>2, <2>3
  <1>3. ASSUME NEW v \in Vols, CompleteCreate(v) PROVE Placed(w)'
    <2>1. CASE w = v
      BY <1>0, <1>3, <2>1, CompleteCreateEffect DEF Placed, HoldStages
    <2> QED  BY <1>0, <1>3, <2>1, CompleteCreateEffect, PlacedFrame
  <1>4. ASSUME NEW v \in Vols, FenceVolume(v) PROVE Placed(w)'
    <2>1. CASE w = v
      <3>1. CASE vol[v].phase = "intent" /\ vol'[v] = NoVolume
        <4>1. vol'[v].phase = "none" /\ vol'[v].pool = NoPool /\ ~vol'[v].active
          BY <3>1 DEF NoVolume
        <4> QED  BY <1>0, <1>4, <2>1, <3>1, <4>1, FenceVolumeEffect, Zenon
          DEF Placed, HoldStages
      <3>2. CASE /\ vol[v].phase \in {"creating", "Ready"} /\ vol'[v].phase = "deleting"
                 /\ vol'[v].pool = vol[v].pool
        BY <1>0, <1>4, <2>1, <3>2, FenceVolumeEffect, ZenonT(40) DEF Placed
      <3> QED  BY <1>0, <1>4, <3>1, <3>2, FenceVolumeEffect
    <2> QED  BY <1>0, <1>4, <2>1, FenceVolumeEffect, PlacedFrame
  <1>5. ASSUME NEW v \in Vols, RemoveVolume(v) PROVE Placed(w)'
    <2>1. CASE w = v
      <3>1. vol'[v].phase = "none" /\ vol'[v].pool = NoPool /\ ~vol'[v].active
        BY <1>0, <1>5, RemoveVolumeEffect DEF NoVolume
      <3> QED  BY <1>0, <1>5, <2>1, <3>1, RemoveVolumeEffect, AdmissionAssumption
                  DEF Placed, HoldStages
    <2> QED  BY <1>0, <1>5, <2>1, RemoveVolumeEffect, PlacedFrame
  <1>6. ASSUME NEW v \in Vols, PlanMove(v) PROVE Placed(w)'
    <2>1. CASE w = v
      <3>1. vol[v].pool \in Pools
        BY <1>0, <1>6, PlanMoveEffect, Zenon DEF Placed, TypeOK, VolumeObjects
      <3> QED  BY <1>0, <1>6, <2>1, <3>1, PlanMoveEffect DEF Placed, HoldStages
    <2> QED  BY <1>0, <1>6, <2>1, PlanMoveEffect, PlacedFrame
  <1>7. ASSUME NEW v \in Vols, GrantPreparation(v) PROVE Placed(w)'
    <2>1. CASE w = v
      BY <1>0, <1>7, <2>1, GrantPreparationEffect DEF Placed
    <2> QED  BY <1>0, <1>7, <2>1, GrantPreparationEffect, PlacedFrame
  <1>8. ASSUME NEW v \in Vols, GrantListVolumes(v) PROVE Placed(w)'
    <2>1. CASE w = v
      BY <1>0, <1>8, <2>1, GrantListVolumesEffect DEF Placed
    <2> QED  BY <1>0, <1>8, <2>1, GrantListVolumesEffect, PlacedFrame
  <1>9. ASSUME NEW v \in Vols, GrantListMoves(v) PROVE Placed(w)'
    <2>1. mob[v].step = "moves" /\ mob[v].pool \in Pools
      BY <1>0, <1>9 DEF Placed, GrantListMoves
    <2>2. CASE w = v
      <3>1. /\ vol' = vol /\ mob[v].step = "moves" /\ mob'[v].step = "idle"
            /\ \/ mv'[v] = mv[v]
               \/ mv'[v].stage = "held" /\ mv'[v].dst = mob[v].pool /\ mv'[v].src = mv[v].src
        BY <1>0, <1>9, <2>1, GrantListMovesEffect, Zenon
      <3> QED  BY <1>0, <2>1, <2>2, <3>1 DEF Placed, HoldStages
    <2> QED  BY <1>0, <1>9, <2>1, <2>2, GrantListMovesEffect, PlacedFrame
  <1>10. ASSUME NEW v \in Vols, ConvertPreparation(v) PROVE Placed(w)'
    <2>1. CASE w = v
      BY <1>0, <1>10, <2>1, ConvertPreparationEffect DEF Placed, HoldStages
    <2> QED  BY <1>0, <1>10, <2>1, ConvertPreparationEffect, PlacedFrame, Zenon
  <1>11. ASSUME NEW v \in Vols, CommitOwner(v) PROVE Placed(w)'
    <2>1. mv[v].dst \in Pools /\ mv[v].dst # NoPool
      BY <1>0, <1>11, AdmissionAssumption DEF Placed, CommitOwner, HoldStages
    <2>2. CASE w = v
      BY <1>0, <1>11, <2>1, <2>2, CommitOwnerEffect DEF Placed, HoldStages
    <2> QED  BY <1>0, <1>11, <2>1, <2>2, CommitOwnerEffect, PlacedFrame, Zenon
  <1>12. ASSUME NEW v \in Vols, RecoverSource(v) PROVE Placed(w)'
    <2>1. CASE w = v
      BY <1>0, <1>12, <2>1, RecoverSourceEffect, ZenonT(40) DEF Placed, HoldStages
    <2> QED  BY <1>0, <1>12, <2>1, RecoverSourceEffect, PlacedFrame, Zenon
  <1>13. ASSUME NEW v \in Vols, SettleRecovery(v) PROVE Placed(w)'
    <2>1. CASE w = v
      BY <1>0, <1>13, <2>1, SettleRecoveryEffect DEF Placed, HoldStages
    <2> QED  BY <1>0, <1>13, <2>1, SettleRecoveryEffect, PlacedFrame
  <1>14. ASSUME NEW v \in Vols, ReleasePreparation(v) PROVE Placed(w)'
    <2>1. CASE w = v
      BY <1>0, <1>14, <2>1, ReleasePreparationEffect, ZenonT(40) DEF Placed, HoldStages
    <2> QED  BY <1>0, <1>14, <2>1, ReleasePreparationEffect, PlacedFrame, Zenon
  <1>15. ASSUME NEW v \in Vols, ReleaseClaim(v) PROVE Placed(w)'
    <2>1. CASE w = v
      BY <1>0, <1>15, <2>1, ReleaseClaimEffect DEF Placed, HoldStages
    <2> QED  BY <1>0, <1>15, <2>1, ReleaseClaimEffect, PlacedFrame
  <1>16. ASSUME NEW v \in Vols, SettleMove(v) PROVE Placed(w)'
    <2>1. CASE w = v
      <3>1. mv'[v] = NoMove /\ mv'[v].stage = "none"
        BY <1>0, <1>16, SettleMoveEffect DEF NoMove
      <3> QED  BY <1>0, <1>16, <2>1, <3>1, SettleMoveEffect, Zenon DEF Placed, HoldStages
    <2> QED  BY <1>0, <1>16, <2>1, SettleMoveEffect, PlacedFrame, Zenon
  <1>17. ASSUME NEW v \in Vols, PassFails(v) PROVE Placed(w)'
    <2>1. CASE w = v
      BY <1>0, <1>17, <2>1, PassFailsEffect, ZenonT(40) DEF Placed
    <2> QED  BY <1>0, <1>17, <2>1, PassFailsEffect, PlacedFrame, Zenon
  <1>18. CASE Restart
    BY <1>0, <1>18, RestartEffect DEF Placed
  <1>19. CASE UNCHANGED <<vol, mv, mob>>
    BY <1>0, <1>19, PlacedFrame
  <1> QED
    BY <1>1, <1>2, <1>3, <1>4, <1>5, <1>6, <1>7, <1>8, <1>9, <1>10, <1>11, <1>12, <1>13,
       <1>14, <1>15, <1>16, <1>17, <1>18, <1>19, QuietSteps, StillSteps, AdmissionAssumption
       DEF Next, Creation, Existence, Movement

(* Every step keeps each copy accounted for.                                *)
LEMMA CopiedStep ==
    ASSUME IInv, ~LateResume, [Next]_vars, NEW w \in Vols
    PROVE  Copied(w)'
  <1>0. /\ TypeOK /\ \A v \in Vols : Called(v) /\ Placed(v) /\ Copied(v)
        /\ \A v \in Vols : mv[v].stage = "approved" => mv[v].src \in Pools
    BY Zenon DEF IInv, Placed, HoldStages
  <1>1. ASSUME NEW v \in Vols, CreateIntent(v) PROVE Copied(w)'
    <2>1. csi[v].step # "create late"
      BY <1>0, Zenon DEF Called
    <2>2. CASE w = v
      <3>1. mv[v].stage # "approved"
        BY <1>0, <1>1, Zenon DEF Called, CreateIntent, HoldStages
      <3> QED  BY <1>0, <1>1, <2>1, <2>2, <3>1, CreateIntentEffect, Zenon DEF Copied
    <2>3. CASE w # v
      BY <1>0, <1>1, <2>1, <2>3, CreateIntentEffect, CopiedFrame, Zenon
    <2> QED  BY <2>2, <2>3
  <1>2. ASSUME NEW v \in Vols, RecordCreationIntent(v) PROVE Copied(w)'
    <2>1. csi[v].step # "record late"
      BY <1>0, Zenon DEF Called
    <2>2. /\ mv' = mv /\ data' = data /\ vol'[v].pool = vol[v].pool /\ vol'[v].active = vol[v].active
          /\ \A u \in Vols \ {v} : vol'[u] = vol[u]
          /\ \/ vol'[v].phase = vol[v].phase
             \/ vol[v].phase = "intent" /\ vol'[v].phase = "creating"
      BY <1>0, <1>2, <2>1, RecordCreationIntentEffect, Zenon
    <2>3. CASE w = v
      <3>1. HeldPool(Volumes, v)' = HeldPool(Volumes, v)
        BY <2>2, HeldPools
      <3> QED  BY <1>0, <2>2, <2>3, <3>1 DEF Copied
    <2>4. CASE w # v
      BY <1>0, <2>2, <2>4, CopiedFrame
    <2> QED  BY <2>3, <2>4
  <1>3. ASSUME NEW v \in Vols, CreateCopy(v) PROVE Copied(w)'
    <2>1. vol[v].pool \in Pools
      BY <1>0, <1>3, Zenon DEF CreateCopy, Placed, TypeOK, VolumeObjects
    <2>2. /\ vol' = vol /\ mv' = mv /\ vol[v].phase = "creating"
          /\ \A p \in Pools : data'[p] = IF p = vol[v].pool THEN data[p] \cup {v} ELSE data[p]
      BY <1>0, <1>3, <2>1, CreateCopyEffect, Zenon
    <2>3. CASE w = v
      <3>1. HeldPool(Volumes, v)' = HeldPool(Volumes, v) /\ mv[v].stage # "approved"
        BY <1>0, <2>2, HeldPools DEF Placed, HoldStages
      <3> QED  BY <1>0, <2>2, <2>3, <3>1, Zenon DEF Copied
    <2>4. CASE w # v
      BY <1>0, <2>2, <2>4, CopiedFrame, Zenon
    <2> QED  BY <2>3, <2>4
  <1>4. ASSUME NEW v \in Vols, CompleteCreate(v) PROVE Copied(w)'
    <2>1. CASE w = v
      <3>1. HeldPool(Volumes, v)' = HeldPool(Volumes, v)
        BY <1>0, <1>4, CompleteCreateEffect, HeldPools
      <3> QED  BY <1>0, <1>4, <2>1, <3>1, CompleteCreateEffect DEF Copied
    <2> QED  BY <1>0, <1>4, <2>1, CompleteCreateEffect, CopiedFrame
  <1>5. ASSUME NEW v \in Vols, FenceVolume(v) PROVE Copied(w)'
    <2>1. CASE w = v
      <3>1. CASE vol[v].phase = "intent" /\ vol'[v] = NoVolume
        BY <1>0, <1>5, <2>1, <3>1, FenceVolumeEffect, Zenon DEF Copied
      <3>2. CASE /\ vol[v].phase \in {"creating", "Ready"} /\ vol'[v].phase = "deleting"
                 /\ vol'[v].pool = vol[v].pool
        <4>1. HeldPool(Volumes, v)' = HeldPool(Volumes, v)
          BY <1>0, <1>5, <3>2, FenceVolumeEffect, HeldPools
        <4> QED  BY <1>0, <1>5, <2>1, <3>2, <4>1, FenceVolumeEffect DEF Copied
      <3> QED  BY <1>0, <1>5, <3>1, <3>2, FenceVolumeEffect
    <2> QED  BY <1>0, <1>5, <2>1, FenceVolumeEffect, CopiedFrame
  <1>6. ASSUME NEW v \in Vols,
               \/ PurgeCopy(v) /\ vol[v].pool \in Pools
               \/ RetireSource(v) \/ RollbackCopy(v)
        PROVE Copied(w)'
    BY <1>0, <1>6, PurgeCopyEffect, RetireSourceEffect, CopiedFrame, Zenon
  <1>7. ASSUME NEW v \in Vols, PurgeCopy(v) PROVE vol[v].pool \in Pools
    BY <1>0, <1>7, Zenon DEF PurgeCopy, Placed, TypeOK, VolumeObjects
  <1>8. ASSUME NEW v \in Vols, RemoveVolume(v) PROVE Copied(w)'
    <2>1. CASE w = v
      <3>1. /\ vol[v].phase = "deleting" /\ v \notin data[vol[v].pool] /\ mv' = mv /\ data' = data
            /\ ~vol[v].active /\ ~vol'[v].active
        BY <1>0, <1>8, RemoveVolumeEffect DEF NoVolume, Placed
      <3>2. ASSUME NEW p \in Pools, v \in data[p] PROVE FALSE
        <4>1. mv[v].stage = "approved" /\ HeldPool(Volumes, v) = p /\ vol[v].pool = mv[v].dst
          BY <1>0, <3>1, <3>2, Zenon DEF Copied, Placed
        <4>2. mv[v].src = p
          BY <4>1, HeldPools
        <4> QED  BY <1>0, <3>1, <3>2, <4>1, <4>2 DEF Copied
      <3> QED  BY <1>0, <2>1, <3>1, <3>2 DEF Copied
    <2> QED  BY <1>0, <1>8, <2>1, RemoveVolumeEffect, CopiedFrame, Zenon
  <1>9. ASSUME NEW v \in Vols, PlanMove(v) PROVE Copied(w)'
    <2>1. CASE w = v
      <3>1. mv[v].stage = "none"
        BY <1>0, <1>9, PlanMoveEffect DEF NoMove
      <3> QED  BY <1>0, <1>9, <2>1, <3>1, PlanMoveEffect DEF Copied
    <2> QED  BY <1>0, <1>9, <2>1, PlanMoveEffect, CopiedFrame
  <1>10. ASSUME NEW v \in Vols, GrantListMoves(v) PROVE Copied(w)'
    <2>1. mob[v].pool \in Pools /\ mv[v].stage = "planned"
      BY <1>0, <1>10 DEF Placed, GrantListMoves
    <2>2. CASE w = v
      <3>1. vol' = vol /\ data' = data /\ mv'[v].stage \in {"planned", "held"}
        BY <1>0, <1>10, <2>1, GrantListMovesEffect
      <3> QED  BY <1>0, <2>1, <2>2, <3>1 DEF Copied
    <2> QED  BY <1>0, <1>10, <2>1, <2>2, GrantListMovesEffect, CopiedFrame
  <1>11. ASSUME NEW v \in Vols, ConvertPreparation(v) PROVE Copied(w)'
    <2>1. CASE w = v
      BY <1>0, <1>11, <2>1, ConvertPreparationEffect, ZenonT(40) DEF Copied, Placed
    <2> QED  BY <1>0, <1>11, <2>1, ConvertPreparationEffect, CopiedFrame
  <1>12. ASSUME NEW v \in Vols, CopyToDestination(v) PROVE Copied(w)'
    <2>1. mv[v].dst \in Pools /\ mv[v].src # mv[v].dst
      BY <1>0, <1>12, Zenon DEF CopyToDestination, Placed, HoldStages
    <2>2. /\ vol' = vol /\ mv' = mv /\ mv[v].stage = "approved" /\ vol[v].pool = mv[v].src
          /\ \A p \in Pools : data'[p] = IF p = mv[v].dst THEN data[p] \cup {v} ELSE data[p]
      BY <1>0, <1>12, <2>1, CopyToDestinationEffect, Zenon
    <2>3. CASE w = v
      <3>1. HeldPool(Volumes, v)' = mv[v].dst /\ HeldPool(Volumes, v) = mv[v].dst
        BY <2>1, <2>2, HeldPools
      <3>2. vol[v].phase \notin {"none", "intent"} /\ vol[v].active
        BY <1>0, <2>2 DEF Placed
      <3> QED  BY <1>0, <2>1, <2>2, <2>3, <3>1, <3>2, Zenon DEF Copied
    <2>4. CASE w # v
      BY <1>0, <2>2, <2>4, CopiedFrame, Zenon
    <2> QED  BY <2>3, <2>4
  <1>13. ASSUME NEW v \in Vols, CommitOwner(v) PROVE Copied(w)'
    <2>1. mv[v].dst \in Pools /\ mv[v].src # mv[v].dst
      BY <1>0, <1>13 DEF CommitOwner, Placed, HoldStages
    <2>2. /\ mv' = mv /\ data' = data /\ mv[v].stage = "approved" /\ vol[v].pool = mv[v].src
          /\ vol'[v].pool = mv[v].dst /\ vol'[v].active = vol[v].active
          /\ vol'[v].phase = vol[v].phase
          /\ \A u \in Vols \ {v} : vol'[u] = vol[u]
      BY <1>0, <1>13, <2>1, CommitOwnerEffect
    <2>3. CASE w = v
      <3>1. HeldPool(Volumes, v)' = mv[v].src /\ HeldPool(Volumes, v) = mv[v].dst
        BY <2>1, <2>2, HeldPools
      <3>2. vol[v].active
        BY <1>0, <2>2 DEF Placed
      <3> QED  BY <1>0, <2>1, <2>2, <2>3, <3>1, <3>2, Zenon DEF Copied
    <2>4. CASE w # v
      BY <1>0, <2>2, <2>4, CopiedFrame
    <2> QED  BY <2>3, <2>4
  <1>14. ASSUME NEW v \in Vols, RecoverSource(v) PROVE Copied(w)'
    <2>1. CASE w = v
      <3>1. HeldPool(Volumes, v)' = HeldPool(Volumes, v)
        BY <1>0, <1>14, RecoverSourceEffect, HeldPools
      <3> QED  BY <1>0, <1>14, <2>1, <3>1, RecoverSourceEffect, Zenon DEF Copied
    <2> QED  BY <1>0, <1>14, <2>1, RecoverSourceEffect, CopiedFrame
  <1>15. ASSUME NEW v \in Vols, SettleRecovery(v) PROVE Copied(w)'
    <2>1. CASE w = v
      <3>1. /\ vol' = vol /\ data' = data /\ mv'[v].stage = "rolled"
            /\ \/ mv[v].stage = "recovering" /\ v \notin data[mv[v].dst]
               \/ mv[v].stage = "approved" /\ vol[v].pool = mv[v].dst /\ v \notin data[mv[v].src]
        BY <1>0, <1>15, SettleRecoveryEffect
      <3>2. ASSUME NEW p \in Pools, v \in data[p] PROVE vol[v].pool = p
        <4>1. HeldPool(Volumes, v) # p
          BY <1>0, <3>1, <3>2, HeldPools DEF Placed
        <4> QED  BY <1>0, <3>2, <4>1 DEF Copied
      <3> QED  BY <1>0, <2>1, <3>1, <3>2 DEF Copied
    <2> QED  BY <1>0, <1>15, <2>1, SettleRecoveryEffect, CopiedFrame
  <1>16. ASSUME NEW v \in Vols, ReleasePreparation(v) PROVE Copied(w)'
    <2>1. CASE w = v
      BY <1>0, <1>16, <2>1, ReleasePreparationEffect DEF Copied
    <2> QED  BY <1>0, <1>16, <2>1, ReleasePreparationEffect, CopiedFrame
  <1>17. ASSUME NEW v \in Vols, ReleaseClaim(v) PROVE Copied(w)'
    <2>1. CASE w = v
      <3>1. HeldPool(Volumes, v)' = HeldPool(Volumes, v)
        BY <1>0, <1>17, ReleaseClaimEffect, HeldPools
      <3> QED  BY <1>0, <1>17, <2>1, <3>1, ReleaseClaimEffect DEF Copied
    <2> QED  BY <1>0, <1>17, <2>1, ReleaseClaimEffect, CopiedFrame
  <1>18. ASSUME NEW v \in Vols, SettleMove(v) PROVE Copied(w)'
    <2>1. CASE w = v
      <3>1. vol' = vol /\ data' = data /\ ~vol[v].active /\ mv'[v].stage = "none"
        BY <1>0, <1>18, SettleMoveEffect DEF NoMove
      <3>2. ASSUME NEW p \in Pools, v \in data[p], vol[v].pool # p PROVE FALSE
        <4>1. mv[v].stage = "approved" /\ HeldPool(Volumes, v) = p
          BY <1>0, <3>1, <3>2, Zenon DEF Copied, Placed
        <4>2. vol[v].pool = mv[v].dst /\ mv[v].src = p
          BY <1>0, <3>1, <3>2, <4>1, HeldPools DEF Placed, Copied
        <4> QED  BY <1>0, <3>1, <3>2, <4>1, <4>2 DEF Copied
      <3> QED  BY <1>0, <2>1, <3>1, <3>2 DEF Copied
    <2> QED  BY <1>0, <1>18, <2>1, SettleMoveEffect, CopiedFrame
  <1>19. CASE UNCHANGED <<vol, mv, data>>
    BY <1>0, <1>19, CopiedFrame
  <1>20. CASE Restart
    BY <1>0, <1>20, RestartEffect, CopiedFrame
  <1>21. ASSUME NEW v \in Vols, GrantPreparation(v) \/ GrantListVolumes(v) \/ PassFails(v)
         PROVE UNCHANGED <<vol, mv, data>>
    BY <1>0, <1>21, GrantPreparationEffect, GrantListVolumesEffect, PassFailsEffect
  <1> QED
    BY <1>1, <1>2, <1>3, <1>4, <1>5, <1>6, <1>7, <1>8, <1>9, <1>10, <1>11, <1>12, <1>13,
       <1>14, <1>15, <1>16, <1>17, <1>18, <1>19, <1>20, <1>21, QuietSteps, StillSteps,
       AdmissionAssumption, Zenon DEF Next, Creation, Existence, Movement

(* Whoever holds a lock holds that of a Pool.                               *)
HoldersOfPools ==
    /\ \A v \in Vols : /\ HoldsLock(v) => csi[v].pool \in Pools
                       /\ Passing(v) => mob[v].pool \in Pools
    /\ Releasing => ctl.pool \in Pools

(* Whoever is between Lock and Unlock holds the Pool it has named.          *)
LEMMA HoldersHold == ASSUME IInv PROVE HoldersOfPools
  BY ZenonT(40)
    DEF IInv, HoldersOfPools, Called, Placed, ReleaseInv, HoldsLock, Passing, Releasing

(* A step after which nobody new holds a lock, and nobody holds another.    *)
LEMMA HoldersOnlyLeave ==
    ASSUME LockInv, Locked',
           \A w \in Vols : HoldsLock(w)' => HoldsLock(w) /\ csi'[w].pool = csi[w].pool,
           \A w \in Vols : Passing(w)' => Passing(w) /\ mob'[w].pool = mob[w].pool,
           Releasing' => Releasing /\ ctl'.pool = ctl.pool
    PROVE  LockInv'
  <1>1. CallsApart'
    BY Zenon DEF LockInv, CallsApart
  <1>2. PassesApart'
    BY Zenon DEF LockInv, PassesApart
  <1>3. CallsFromPasses'
    BY Zenon DEF LockInv, CallsFromPasses
  <1>4. ReleaseApart'
    BY Zenon DEF LockInv, ReleaseApart
  <1> QED  BY <1>1, <1>2, <1>3, <1>4, Zenon DEF LockInv

(* A call that goes on or lets go of its lock.                              *)
LEMMA CallLock ==
    ASSUME LockInv, HoldersOfPools, NEW v \in Vols, UNCHANGED <<mob, ctl>>,
           \A w \in Vols \ {v} : csi'[w] = csi[w],
           HoldsLock(v)' => HoldsLock(v) /\ csi'[v].pool = csi[v].pool /\ lock' = lock,
           \A q \in Pools : lock'[q] = lock[q] \/ (HoldsLock(v) /\ q = csi[v].pool)
    PROVE  LockInv'
  <1>1. \A w \in Vols : HoldsLock(w)' => HoldsLock(w) /\ csi'[w].pool = csi[w].pool
    BY DEF HoldsLock
  <1>2. \A w \in Vols : (Passing(w)' <=> Passing(w)) /\ mob'[w] = mob[w]
    BY DEF Passing
  <1>3. (Releasing' <=> Releasing) /\ ctl' = ctl
    BY DEF Releasing
  <1>4. \A w \in Vols : HoldsLock(w)' => lock'[csi'[w].pool]
    BY <1>1 DEF LockInv, Locked, CallsApart, HoldersOfPools
  <1>5. \A w \in Vols : Passing(w)' => lock'[mob'[w].pool]
    BY <1>2, ZenonT(40) DEF LockInv, Locked, CallsFromPasses, HoldersOfPools
  <1>6. Releasing' => lock'[ctl'.pool]
    BY <1>3, Zenon DEF LockInv, Locked, ReleaseApart, HoldersOfPools
  <1>7. Locked'
    BY <1>4, <1>5, <1>6, Zenon DEF Locked
  <1> QED  BY <1>1, <1>2, <1>3, <1>7, HoldersOnlyLeave, Zenon

(* A mobility pass that goes on or lets go of its lock.                     *)
LEMMA PassLock ==
    ASSUME LockInv, HoldersOfPools, NEW v \in Vols, UNCHANGED <<csi, ctl>>,
           \A w \in Vols \ {v} : mob'[w] = mob[w],
           Passing(v)' => Passing(v) /\ mob'[v].pool = mob[v].pool /\ lock' = lock,
           \A q \in Pools : lock'[q] = lock[q] \/ (Passing(v) /\ q = mob[v].pool)
    PROVE  LockInv'
  <1>1. \A w \in Vols : Passing(w)' => Passing(w) /\ mob'[w].pool = mob[w].pool
    BY DEF Passing
  <1>2. \A w \in Vols : (HoldsLock(w)' <=> HoldsLock(w)) /\ csi'[w] = csi[w]
    BY DEF HoldsLock
  <1>3. (Releasing' <=> Releasing) /\ ctl' = ctl
    BY DEF Releasing
  <1>4. \A w \in Vols : HoldsLock(w)' => lock'[csi'[w].pool]
    BY <1>2 DEF LockInv, Locked, CallsFromPasses, HoldersOfPools
  <1>5. \A w \in Vols : Passing(w)' => lock'[mob'[w].pool]
    BY <1>1 DEF LockInv, Locked, PassesApart, HoldersOfPools
  <1>6. Releasing' => lock'[ctl'.pool]
    BY <1>3, Zenon DEF LockInv, Locked, ReleaseApart, HoldersOfPools
  <1>7. Locked'
    BY <1>4, <1>5, <1>6, Zenon DEF Locked
  <1> QED  BY <1>1, <1>2, <1>3, <1>7, HoldersOnlyLeave, Zenon

(* Every step keeps mutual exclusion on a Pool's lock.                      *)
LEMMA LockStep ==
    ASSUME IInv, ~LateResume, [Next]_vars
    PROVE  LockInv'
  <1>0. TypeOK /\ LockInv /\ HoldersOfPools /\ \A v \in Vols : Called(v) /\ Placed(v)
    BY HoldersHold DEF IInv
  <1>1. ASSUME NEW v \in Vols, CreateVolume(v) PROVE LockInv'
    BY <1>0, <1>1, CreateVolumeEffect, CallLock DEF HoldsLock
  <1>2. ASSUME NEW v \in Vols, LockPool(v) PROVE LockInv'
    <2>1. csi[v].pool \in Pools
      BY <1>0, <1>2, Zenon DEF Called, LockPool
    <2>2. /\ UNCHANGED <<mob, ctl>> /\ csi'[v].pool = csi[v].pool /\ ~HoldsLock(v)
          /\ \A w \in Vols \ {v} : csi'[w] = csi[w]
          /\ ~lock[csi[v].pool] /\ lock'[csi[v].pool]
          /\ \A q \in Pools \ {csi[v].pool} : lock'[q] = lock[q]
      BY <1>0, <1>2, <2>1, LockPoolEffect, Zenon DEF HoldsLock
    <2>3. \A w \in Vols : /\ w # v /\ HoldsLock(w)' => HoldsLock(w) /\ csi'[w].pool = csi[w].pool
                          /\ (Passing(w)' <=> Passing(w)) /\ mob'[w] = mob[w]
      BY <2>2 DEF HoldsLock, Passing
    <2>4. (Releasing' <=> Releasing) /\ ctl' = ctl
      BY <2>2 DEF Releasing
    <2>5. \A w \in Vols : Passing(w)' => lock'[mob'[w].pool] /\ mob'[w].pool # csi'[v].pool
      BY <1>0, <2>1, <2>2, <2>3 DEF LockInv, Locked, HoldersOfPools
    <2>6. Releasing' => lock'[ctl'.pool] /\ ctl'.pool # csi'[v].pool
      BY <1>0, <2>1, <2>2, <2>4, Zenon DEF LockInv, Locked, HoldersOfPools
    <2>7. \A w \in Vols \ {v} : HoldsLock(w)' => lock'[csi'[w].pool] /\ csi'[w].pool # csi'[v].pool
      BY <1>0, <2>1, <2>2, <2>3, ZenonT(40) DEF LockInv, Locked, HoldersOfPools
    <2>8. Locked'
      BY <2>2, <2>5, <2>6, <2>7, Zenon DEF Locked
    <2>9. CallsApart'
      BY <1>0, <2>3, <2>7, Zenon DEF LockInv, CallsApart
    <2>10. PassesApart'
      BY <1>0, <2>3, Zenon DEF LockInv, PassesApart
    <2>11. CallsFromPasses'
      BY <1>0, <2>3, <2>5 DEF LockInv, CallsFromPasses
    <2>12. ReleaseApart'
      BY <1>0, <2>3, <2>4, <2>6, Zenon DEF LockInv, ReleaseApart
    <2> QED  BY <2>8, <2>9, <2>10, <2>11, <2>12, Zenon DEF LockInv
  <1>3. ASSUME NEW v \in Vols, ListVolumes(v) PROVE LockInv'
    BY <1>0, <1>3, ListVolumesEffect, CallLock DEF HoldsLock
  <1>4. ASSUME NEW v \in Vols, PoolFits(v) PROVE LockInv'
    BY <1>0, <1>4, PoolFitsEffect, CallLock DEF HoldsLock
  <1>5. ASSUME NEW v \in Vols, BeginCreate(v) PROVE LockInv'
    <2>1. csi[v].step # "resume"
      BY <1>0, Zenon DEF Called
    <2> QED  BY <1>0, <1>5, <2>1, BeginCreateEffect, CallLock, Zenon DEF HoldsLock
  <1>6. ASSUME NEW v \in Vols, CreateIntent(v) PROVE LockInv'
    <2>1. csi[v].step # "create late"
      BY <1>0, Zenon DEF Called
    <2> QED  BY <1>0, <1>6, <2>1, CreateIntentEffect, CallLock, Zenon DEF HoldsLock
  <1>7. ASSUME NEW v \in Vols, RecordCreationIntent(v) PROVE LockInv'
    <2>1. csi[v].step # "record late"
      BY <1>0, Zenon DEF Called
    <2> QED  BY <1>0, <1>7, <2>1, RecordCreationIntentEffect, CallLock, ZenonT(40)
      DEF HoldsLock
  <1>8. ASSUME NEW v \in Vols, CallFails(v) PROVE LockInv'
    <2>1. ~HoldsLock(v)'
      BY <1>0, <1>8, CallFailsEffect DEF HoldsLock
    <2> QED  BY <1>0, <1>8, <2>1, CallFailsEffect, CallLock, Zenon
  <1>9. ASSUME NEW v \in Vols, GrantPreparation(v) PROVE LockInv'
    <2> DEFINE p == mob'[v].pool
    <2>1. /\ UNCHANGED <<csi, ctl>> /\ p \in Pools /\ ~Passing(v)
          /\ \A w \in Vols \ {v} : mob'[w] = mob[w]
          /\ ~lock[p] /\ lock'[p]
          /\ \A q \in Pools \ {p} : lock'[q] = lock[q]
      BY <1>0, <1>9, GrantPreparationEffect, Zenon DEF Passing
    <2>2. \A w \in Vols : /\ w # v /\ Passing(w)' => Passing(w) /\ mob'[w].pool = mob[w].pool
                          /\ (HoldsLock(w)' <=> HoldsLock(w)) /\ csi'[w] = csi[w]
      BY <2>1 DEF HoldsLock, Passing
    <2>3. (Releasing' <=> Releasing) /\ ctl' = ctl
      BY <2>1 DEF Releasing
    <2>4. \A w \in Vols : HoldsLock(w)' => lock'[csi'[w].pool] /\ csi'[w].pool # p
      BY <1>0, <2>1, <2>2, Zenon DEF LockInv, Locked, HoldersOfPools
    <2>5. Releasing' => lock'[ctl'.pool] /\ ctl'.pool # p
      BY <1>0, <2>1, <2>3, Zenon DEF LockInv, Locked, HoldersOfPools
    <2>6. \A w \in Vols \ {v} : Passing(w)' => lock'[mob'[w].pool] /\ mob'[w].pool # p
      BY <1>0, <2>1, <2>2 DEF LockInv, Locked, HoldersOfPools
    <2>7. Locked'
      BY <2>1, <2>4, <2>5, <2>6, Zenon DEF Locked
    <2>8. CallsApart'
      BY <1>0, <2>2, Zenon DEF LockInv, CallsApart
    <2>9. PassesApart'
      BY <1>0, <2>2, <2>6, Zenon DEF LockInv, PassesApart
    <2>10. CallsFromPasses'
      BY <1>0, <2>2, <2>4 DEF LockInv, CallsFromPasses
    <2>11. ReleaseApart'
      BY <1>0, <2>2, <2>3, <2>5, Zenon DEF LockInv, ReleaseApart
    <2> QED  BY <2>7, <2>8, <2>9, <2>10, <2>11, Zenon DEF LockInv
  <1>10. ASSUME NEW v \in Vols, GrantListVolumes(v) PROVE LockInv'
    BY <1>0, <1>10, GrantListVolumesEffect, PassLock, Zenon DEF Passing
  <1>11. ASSUME NEW v \in Vols, GrantListMoves(v) PROVE LockInv'
    <2>1. mob[v].pool \in Pools
      BY <1>0, <1>11 DEF GrantListMoves, Placed
    <2> QED  BY <1>0, <1>11, <2>1, GrantListMovesEffect, PassLock, ZenonT(40) DEF Passing
  <1>12. ASSUME NEW v \in Vols, PassFails(v) PROVE LockInv'
    BY <1>0, <1>12, PassFailsEffect, PassLock DEF Passing
  <1>13. ASSUME NEW p \in Pools, ListPoolRegistrations(p) PROVE LockInv'
    <2>1. UNCHANGED <<lock, csi, mob>> /\ ~Releasing'
      BY <1>0, <1>13, ListPoolRegistrationsEffect DEF Releasing
    <2>2. \A w \in Vols : /\ (HoldsLock(w)' <=> HoldsLock(w)) /\ csi'[w] = csi[w]
                          /\ (Passing(w)' <=> Passing(w)) /\ mob'[w] = mob[w]
      BY <2>1 DEF HoldsLock, Passing
    <2>3. Locked'
      BY <1>0, <2>1, <2>2, Zenon DEF LockInv, Locked
    <2> QED  BY <1>0, <2>1, <2>2, <2>3, HoldersOnlyLeave, Zenon
  <1>14. CASE LockForRelease
    <2>1. ctl.pool \in Pools
      BY <1>14 DEF IInv, ReleaseInv, LockForRelease
    <2>2. /\ UNCHANGED <<csi, mob>> /\ ctl'.pool = ctl.pool
          /\ ~lock[ctl.pool] /\ lock'[ctl.pool]
          /\ \A q \in Pools \ {ctl.pool} : lock'[q] = lock[q]
      BY <1>0, <1>14, <2>1, LockForReleaseEffect, Zenon
    <2>3. \A w \in Vols : /\ (HoldsLock(w)' <=> HoldsLock(w)) /\ csi'[w] = csi[w]
                          /\ (Passing(w)' <=> Passing(w)) /\ mob'[w] = mob[w]
      BY <2>2 DEF HoldsLock, Passing
    <2>4. \A w \in Vols : /\ HoldsLock(w)' => lock'[csi'[w].pool] /\ csi'[w].pool # ctl'.pool
                          /\ Passing(w)' => lock'[mob'[w].pool] /\ mob'[w].pool # ctl'.pool
      BY <1>0, <2>1, <2>2, <2>3 DEF LockInv, Locked, HoldersOfPools
    <2>5. Locked'
      BY <2>2, <2>4, Zenon DEF Locked
    <2>6. CallsApart' /\ PassesApart'
      BY <1>0, <2>3, Zenon DEF LockInv, CallsApart, PassesApart
    <2>7. CallsFromPasses'
      BY <1>0, <2>3, Zenon DEF LockInv, CallsFromPasses
    <2>8. ReleaseApart'
      BY <2>4, Zenon DEF ReleaseApart
    <2> QED  BY <2>5, <2>6, <2>7, <2>8, Zenon DEF LockInv
  <1>15. CASE CheckVolumes
    <2>1. ctl.pool \in Pools
      BY <1>15 DEF IInv, ReleaseInv, CheckVolumes
    <2>2. /\ UNCHANGED <<csi, mob, lock>> /\ ctl'.pool = ctl.pool /\ Releasing
      BY <1>0, <1>15, <2>1, CheckVolumesEffect, Zenon DEF Releasing
    <2>3. \A w \in Vols : /\ (HoldsLock(w)' <=> HoldsLock(w)) /\ csi'[w] = csi[w]
                          /\ (Passing(w)' <=> Passing(w)) /\ mob'[w] = mob[w]
      BY <2>2 DEF HoldsLock, Passing
    <2>4. Locked'
      BY <1>0, <2>2, <2>3, Zenon DEF LockInv, Locked
    <2> QED  BY <1>0, <2>2, <2>3, <2>4, HoldersOnlyLeave, Zenon
  <1>16. CASE ReleaseStep
    <2>1. ctl.pool \in Pools
      BY <1>16 DEF IInv, ReleaseInv, ReleaseStep
    <2>2. /\ UNCHANGED <<csi, mob>> /\ Releasing /\ ~Releasing'
          /\ \A q \in Pools \ {ctl.pool} : lock'[q] = lock[q]
      BY <1>0, <1>16, <2>1, ReleaseStepEffect, Zenon DEF Releasing
    <2>3. \A w \in Vols : /\ (HoldsLock(w)' <=> HoldsLock(w)) /\ csi'[w] = csi[w]
                          /\ (Passing(w)' <=> Passing(w)) /\ mob'[w] = mob[w]
      BY <2>2 DEF HoldsLock, Passing
    <2>4. \A w \in Vols : /\ HoldsLock(w)' => lock'[csi'[w].pool]
                          /\ Passing(w)' => lock'[mob'[w].pool]
      BY <1>0, <2>1, <2>2, <2>3, Zenon DEF LockInv, Locked, ReleaseApart, HoldersOfPools
    <2>5. Locked'
      BY <2>2, <2>4, Zenon DEF Locked
    <2> QED  BY <1>0, <2>2, <2>3, <2>5, HoldersOnlyLeave, Zenon
  <1>17. CASE Restart
    <2>1. ~Releasing' /\ \A w \in Vols : ~HoldsLock(w)' /\ ~Passing(w)'
      BY <1>0, <1>17, RestartEffect, Zenon DEF HoldsLock, Passing, Releasing
    <2>2. Locked'
      BY <2>1, Zenon DEF Locked
    <2> QED  BY <1>0, <2>1, <2>2, HoldersOnlyLeave, Zenon
  <1>18. CASE UNCHANGED <<lock, csi, mob, ctl>>
    BY <1>0, <1>18, LockFrame
  <1> QED
    BY <1>1, <1>2, <1>3, <1>4, <1>5, <1>6, <1>7, <1>8, <1>9, <1>10, <1>11, <1>12, <1>13,
       <1>14, <1>15, <1>16, <1>17, <1>18, FreeSteps, QuietSteps, AdmissionAssumption, Zenon
       DEF Next, Creation, Existence, Movement, Lifecycle

=============================================================================
