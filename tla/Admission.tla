------------------------------ MODULE Admission ------------------------------
(***************************************************************************)
(* What the Pool UID lock protects: the capacity ledger and the life of a  *)
(* Pool registration.                                                      *)
(*                                                                         *)
(* CreateVolume admits a new volume to a Pool, a Move reserves and then    *)
(* takes over space of its destination Pool, and the Pool controller       *)
(* deregisters or retires a Pool.  All three read the ledger with two API  *)
(* lists, Volumes first and Moves second, and act later; only the lock of  *)
(* the Pool UID stands between them.  The Node's observation loop and the  *)
(* disk take no such lock.                                                 *)
(*                                                                         *)
(* A volume name has one incarnation at a time (module Creation) and at    *)
(* most one Move (module Mobility), of which only the writes that the      *)
(* ledger or a Pool reference can see are kept.  Left out: legacy objects  *)
(* without an initial Pool, edits of a Pool's limit.                       *)
(***************************************************************************)
EXTENDS Naturals, FiniteSets

CONSTANTS
    Vols,       \* volume names
    Pools,      \* Pool registrations, each on its own node
    NoPool,
    Size,       \* bytes each volume asks for
    Limit,      \* spec.capacity.limit of each Pool
    Movers,     \* the volumes whose node is drained
    Deleted,    \* the volumes whose claims are deleted
    Mortal,     \* the Pools an operator may delete or retire
    LateResume  \* may an unfinished creation vanish under a call that resumes it ?

ASSUME AdmissionAssumption ==
    /\ IsFiniteSet(Vols) /\ NoPool \notin Pools /\ Mortal \subseteq Pools
    /\ Movers \subseteq Vols /\ Deleted \subseteq Vols
    /\ \A v \in Vols : Size[v] \in Nat \ {0}
    /\ \A p \in Pools : Limit[p] \in Nat

VARIABLES
    vol,   \* ShiftPVVolume objects
    mv,    \* unsettled ShiftPVMove objects
    pool,  \* ShiftPVPool objects
    data,  \* volumes with a copy on each Pool's disk
    lock,  \* is the Pool UID lock taken ?
    csi,   \* the CreateVolume call of each name
    mob,   \* the mobility pass of each volume
    ctl,   \* the Pool controller's pass
    node   \* the Node's observation of each deleted Pool in progress

vars == <<vol, mv, pool, data, lock, csi, mob, ctl, node>>

VolumeObjects == [phase : {"none", "intent", "creating", "Ready", "deleting"},
                  pool : Pools \cup {NoPool}, active : BOOLEAN]
MoveObjects == [stage : {"none", "planned", "held", "approved", "recovering", "rolled"},
                src : Pools \cup {NoPool}, dst : Pools \cup {NoPool}]
PoolObjects == [phase : {"live", "deleting", "gone"}, request : BOOLEAN, retired : BOOLEAN,
                approval : BOOLEAN, released : BOOLEAN, marker : BOOLEAN,
                inventory : SUBSET Vols, current : BOOLEAN]
Owners == [pool : Pools \cup {NoPool}, active : BOOLEAN]
CallSteps == {"idle", "lock", "relock", "resume", "volumes", "moves", "measure", "create",
              "create late", "record", "record late", "recheck"}
Calls == [step : CallSteps, pool : Pools \cup {NoPool}, seen : [Vols -> Owners]]
Controls == [step : {"idle", "lock", "volumes", "moves"}, pool : Pools \cup {NoPool},
             retire : BOOLEAN, approval : BOOLEAN, released : BOOLEAN, used : BOOLEAN,
             clear : BOOLEAN]
Observations == [step : {"idle", "observed", "released"}, approval : BOOLEAN,
                 released : BOOLEAN, copies : SUBSET Vols]
NoVolume == [phase |-> "none", pool |-> NoPool, active |-> FALSE]
NoMove == [stage |-> "none", src |-> NoPool, dst |-> NoPool]
Registered == [phase |-> "live", request |-> FALSE, retired |-> FALSE,
               approval |-> FALSE, released |-> FALSE, marker |-> TRUE,
               inventory |-> {}, current |-> TRUE]
Nobody == [v \in Vols |-> [pool |-> NoPool, active |-> FALSE]]
IdleCall == [step |-> "idle", pool |-> NoPool, seen |-> Nobody]
IdleControl == [step |-> "idle", pool |-> NoPool, retire |-> FALSE, approval |-> FALSE,
                released |-> FALSE, used |-> FALSE, clear |-> FALSE]
IdleNode == [step |-> "idle", approval |-> FALSE, released |-> FALSE, copies |-> {}]

Init ==
    /\ vol = [v \in Vols |-> NoVolume] /\ mv = [v \in Vols |-> NoMove]
    /\ pool = [p \in Pools |-> Registered]
    /\ data = [p \in Pools |-> {}] /\ lock = [p \in Pools |-> FALSE]
    /\ csi = [v \in Vols |-> IdleCall] /\ mob = [v \in Vols |-> IdleCall]
    /\ ctl = IdleControl /\ node = [p \in Pools |-> IdleNode]

-----------------------------------------------------------------------------
(* The ledger, over a list of Volumes (seen) and a list of Moves.           *)

Volumes == [v \in Vols |-> [pool |-> vol[v].pool, active |-> vol[v].active]]

(* moveReservation: a preparation holds its destination; an approved Move   *)
(* holds the destination until the owner CAS and the source until cleanup.  *)
HeldPool(seen, v) ==
    CASE mv[v].stage = "held" -> mv[v].dst
      [] mv[v].stage \in {"approved", "recovering"} ->
            IF seen[v].pool = mv[v].dst THEN mv[v].src ELSE mv[v].dst
      [] OTHER -> NoPool

(* A hold whose volume is gone, unlocked or owned elsewhere is an error.    *)
LedgerReadable(seen) ==
    \A v \in Vols :
        /\ mv[v].stage \in {"held", "approved", "recovering"} => seen[v].active
        /\ mv[v].stage = "held" => seen[v].pool = mv[v].src

(* The sum of the sizes of some volumes: all their bytes, counted.          *)
Bytes(vols) == Cardinality(UNION {{v} \X (1..Size[v]) : v \in vols})

Owned(seen, p) == {v \in Vols : seen[v].pool = p}
Held(seen, p) == {v \in Vols : HeldPool(seen, v) = p}

ReservedBytesForPool(seen, p) == Bytes(Owned(seen, p)) + Bytes(Held(seen, p))

FitsReservation(requested, reserved, limit) ==
    requested > 0 /\ reserved < limit /\ requested <= limit - reserved

PoolReady(p) == pool[p].phase = "live" /\ ~pool[p].request /\ ~pool[p].retired
PoolHasServingVolume(p, v) == v \in pool[p].inventory

-----------------------------------------------------------------------------
(* CreateVolume.                                                            *)

Call(v, step) == csi' = [csi EXCEPT ![v].step = step]
Refuse(v) == csi' = [csi EXCEPT ![v] = IdleCall]
Lock(p) == ~lock[p] /\ lock' = [lock EXCEPT ![p] = TRUE]
Unlock(p) == lock' = [lock EXCEPT ![p] = FALSE]

(* beginCreateWithinPool and placeNewCreate: an unfinished creation is      *)
(* resumed where it was placed, a new one tries the Pools its snapshot      *)
(* shows as Ready in turn.  A candidate that denies leaves nothing behind,  *)
(* so a call stands for one candidate.                                      *)
CreateVolume(v) ==
    /\ csi[v].step = "idle"
    /\ LET ready == {p \in Pools : PoolReady(p)}
           to(step, p) == csi' = [csi EXCEPT ![v].step = step, ![v].pool = p]
       IN \/ /\ vol[v].phase = "none" /\ \A p \in ready : ~PoolHasServingVolume(p, v)
             /\ \E p \in ready : to("lock", p)
          \/ vol[v].phase = "intent" /\ to("relock", vol[v].pool)
          \/ vol[v].phase = "creating" /\ LateResume /\ to("resume", vol[v].pool)
    /\ UNCHANGED <<vol, mv, pool, data, lock, mob, ctl, node>>

LockPool(v) ==
    /\ csi[v].step \in {"lock", "relock"} /\ Lock(csi[v].pool)
    /\ Call(v, IF csi[v].step = "lock" THEN "volumes" ELSE "recheck")
    /\ UNCHANGED <<vol, mv, pool, data, mob, ctl, node>>

ListVolumes(v) ==
    /\ csi[v].step = "volumes"
    /\ csi' = [csi EXCEPT ![v].step = "moves", ![v].seen = Volumes]
    /\ UNCHANGED <<vol, mv, pool, data, lock, mob, ctl, node>>

(* poolFits, the logical half: an unreadable ledger fails the call, a full  *)
(* Pool is a denial.                                                        *)
PoolFits(v) ==
    LET p == csi[v].pool
        reserved == ReservedBytesForPool(csi[v].seen, p)
    IN /\ csi[v].step = "moves"
       /\ IF LedgerReadable(csi[v].seen) /\ FitsReservation(Size[v], reserved, Limit[p])
          THEN /\ csi' = [csi EXCEPT ![v].step = "measure", ![v].seen = Nobody]
               /\ UNCHANGED lock
          ELSE Refuse(v) /\ Unlock(p)
       /\ UNCHANGED <<vol, mv, pool, data, mob, ctl, node>>

(* The physical half, and BeginCreate up to its first write; too little     *)
(* space is one of the ways a call fails.  The call that resumes a placed   *)
(* creation comes here without the lock.                                    *)
BeginCreate(v) ==
    LET p == csi[v].pool
        fresh == vol[v].phase = "none" /\ PoolReady(p) /\ ~PoolHasServingVolume(p, v)
        late == csi[v].step = "resume"
    IN /\ csi[v].step \in {"measure", "resume"}
       /\ IF fresh THEN Call(v, IF late THEN "create late" ELSE "create") ELSE Refuse(v)
       /\ IF fresh \/ late THEN UNCHANGED lock ELSE Unlock(p)
       /\ UNCHANGED <<vol, mv, pool, data, mob, ctl, node>>

CreateIntent(v) ==
    /\ csi[v].step \in {"create", "create late"} /\ vol[v].phase = "none"
    /\ vol' = [vol EXCEPT ![v] = [phase |-> "intent", pool |-> csi[v].pool,
                                  active |-> FALSE]]
    /\ Call(v, IF csi[v].step = "create" THEN "record" ELSE "record late")
    /\ UNCHANGED <<mv, pool, data, lock, mob, ctl, node>>

(* completeInitialization, also for an intent that an earlier call left;    *)
(* the reservation of the intent is not charged again.                      *)
RecordCreationIntent(v) ==
    /\ csi[v].step \in {"record", "record late", "recheck"}
    /\ vol' = IF vol[v].phase = "intent" THEN [vol EXCEPT ![v].phase = "creating"] ELSE vol
    /\ Refuse(v)
    /\ IF csi[v].step = "record late" THEN UNCHANGED lock ELSE Unlock(csi[v].pool)
    /\ UNCHANGED <<mv, pool, data, mob, ctl, node>>

Creation == \E v \in Vols :
    \/ CreateVolume(v) \/ LockPool(v) \/ ListVolumes(v) \/ PoolFits(v)
    \/ BeginCreate(v) \/ CreateIntent(v) \/ RecordCreationIntent(v)

-----------------------------------------------------------------------------
(* The rest of a volume's life: the node's copy, and its removal, which     *)
(* proves the copy absent before the object goes.                           *)

CreateCopy(v) ==
    /\ vol[v].phase = "creating" /\ pool[vol[v].pool].marker
    /\ data' = [data EXCEPT ![vol[v].pool] = @ \cup {v}]
    /\ UNCHANGED <<vol, mv, pool, lock, csi, mob, ctl, node>>

CompleteCreate(v) ==
    /\ vol[v].phase = "creating" /\ v \in data[vol[v].pool]
    /\ vol' = [vol EXCEPT ![v].phase = "Ready"]
    /\ UNCHANGED <<mv, pool, data, lock, csi, mob, ctl, node>>

FenceVolume(v) ==
    /\ v \in Deleted
    /\ vol[v].phase \in {"intent", "creating", "Ready"} /\ ~vol[v].active
    /\ vol' = [vol EXCEPT ![v] = IF @.phase = "intent" THEN NoVolume
                                 ELSE [@ EXCEPT !.phase = "deleting"]]
    /\ UNCHANGED <<mv, pool, data, lock, csi, mob, ctl, node>>

PurgeCopy(v) ==
    /\ vol[v].phase = "deleting"
    /\ data' = [data EXCEPT ![vol[v].pool] = @ \ {v}]
    /\ UNCHANGED <<vol, mv, pool, lock, csi, mob, ctl, node>>

RemoveVolume(v) ==
    /\ vol[v].phase = "deleting" /\ v \notin data[vol[v].pool]
    /\ v \notin pool[vol[v].pool].inventory
    /\ vol' = [vol EXCEPT ![v] = NoVolume]
    /\ UNCHANGED <<mv, pool, data, lock, csi, mob, ctl, node>>

Existence == \E v \in Vols :
    CreateCopy(v) \/ CompleteCreate(v) \/ FenceVolume(v) \/ PurgeCopy(v) \/ RemoveVolume(v)

-----------------------------------------------------------------------------
(* A Move, reduced to its ledger writes.  Every lock is taken with TryLock. *)

Stage(v, stage) == mv' = [mv EXCEPT ![v].stage = stage]

(* CreateMove and the source claim.                                         *)
PlanMove(v) ==
    /\ v \in Movers /\ vol[v].phase = "Ready" /\ ~vol[v].active
    /\ mv[v] = NoMove /\ mob[v].step = "idle"
    /\ mv' = [mv EXCEPT ![v] = [stage |-> "planned", src |-> vol[v].pool, dst |-> NoPool]]
    /\ vol' = [vol EXCEPT ![v].active = TRUE]
    /\ UNCHANGED <<pool, data, lock, csi, mob, ctl, node>>

(* grantPreparation: the destination is Ready under its lock.               *)
GrantPreparation(v) ==
    /\ mob[v].step = "idle" /\ mv[v].stage = "planned" /\ vol[v].active
    /\ \E p \in Pools \ {vol[v].pool} :
        /\ PoolReady(p) /\ ~PoolHasServingVolume(p, v) /\ Lock(p)
        /\ mob' = [mob EXCEPT ![v] = [IdleCall EXCEPT !.step = "volumes", !.pool = p]]
    /\ UNCHANGED <<vol, mv, pool, data, csi, ctl, node>>

GrantListVolumes(v) ==
    /\ mob[v].step = "volumes"
    /\ mob' = [mob EXCEPT ![v].step = "moves", ![v].seen = Volumes]
    /\ UNCHANGED <<vol, mv, pool, data, lock, csi, ctl, node>>

PreparationPoolFits(requested, reserved, limit) ==
    requested > 0 /\ requested + reserved <= limit

GrantListMoves(v) ==
    LET p == mob[v].pool
        seen == mob[v].seen
        fits == /\ LedgerReadable(seen)
                /\ PreparationPoolFits(Size[v], ReservedBytesForPool(seen, p), Limit[p])
    IN /\ mob[v].step = "moves"
       /\ mv' = IF fits THEN [mv EXCEPT ![v].stage = "held", ![v].dst = p] ELSE mv
       /\ mob' = [mob EXCEPT ![v] = IdleCall] /\ Unlock(p)
       /\ UNCHANGED <<vol, pool, data, csi, ctl, node>>

(* convertPreparation: under the lock, one write replaces the hold.         *)
ConvertPreparation(v) ==
    /\ mob[v].step = "idle" /\ mv[v].stage = "held" /\ PoolReady(mv[v].dst)
    /\ ~lock[mv[v].dst] /\ Stage(v, "approved")
    /\ UNCHANGED <<vol, pool, data, lock, csi, mob, ctl, node>>

(* The copy Job and the promotion.                                          *)
CopyToDestination(v) ==
    /\ mv[v].stage = "approved" /\ vol[v].pool = mv[v].src /\ pool[mv[v].dst].marker
    /\ data' = [data EXCEPT ![mv[v].dst] = @ \cup {v}]
    /\ UNCHANGED <<vol, mv, pool, lock, csi, mob, ctl, node>>

(* Mutant: the owner changes without the destination's lock.                *)
CommitOwnerUnlocked(v) ==
    /\ mob[v].step = "idle" /\ mv[v].stage = "approved" /\ vol[v].pool = mv[v].src
    /\ v \in data[mv[v].dst]
    /\ vol' = [vol EXCEPT ![v].pool = mv[v].dst]
    /\ UNCHANGED <<mv, pool, data, lock, csi, mob, ctl, node>>

(* The owner CAS, with the destination's lock around the one write.         *)
CommitOwner(v) ==
    /\ mob[v].step = "idle" /\ mv[v].stage = "approved" /\ vol[v].pool = mv[v].src
    /\ v \in data[mv[v].dst] /\ ~lock[mv[v].dst]
    /\ vol' = [vol EXCEPT ![v].pool = mv[v].dst]
    /\ UNCHANGED <<mv, pool, data, lock, csi, mob, ctl, node>>

RetireSource(v) ==
    /\ mv[v].stage = "approved" /\ vol[v].pool = mv[v].dst
    /\ data' = [data EXCEPT ![mv[v].src] = @ \ {v}]
    /\ UNCHANGED <<vol, mv, pool, lock, csi, mob, ctl, node>>

(* Recovery before the commit takes the destination's copy back first.      *)
RecoverSource(v) ==
    /\ mob[v].step = "idle" /\ mv[v].stage = "approved" /\ vol[v].pool = mv[v].src
    /\ Stage(v, "recovering")
    /\ UNCHANGED <<vol, pool, data, lock, csi, mob, ctl, node>>

RollbackCopy(v) ==
    /\ mv[v].stage = "recovering"
    /\ data' = [data EXCEPT ![mv[v].dst] = @ \ {v}]
    /\ UNCHANGED <<vol, mv, pool, lock, csi, mob, ctl, node>>

(* Mutant: the hold is given back before the copy is proved gone.           *)
SettleRecoveryEarly(v) ==
    /\ mv[v].stage = "recovering" \/ (mv[v].stage = "approved" /\ vol[v].pool = mv[v].dst)
    /\ Stage(v, "rolled")
    /\ UNCHANGED <<vol, pool, data, lock, csi, mob, ctl, node>>

(* settleRecoveryArtifacts, for either owner.                               *)
SettleRecovery(v) ==
    /\ \/ mv[v].stage = "recovering" /\ v \notin data[mv[v].dst]
       \/ /\ mv[v].stage = "approved" /\ vol[v].pool = mv[v].dst
          /\ v \notin data[mv[v].src]
    /\ Stage(v, "rolled")
    /\ UNCHANGED <<vol, pool, data, lock, csi, mob, ctl, node>>

(* A preparation is cancelled, before execution only.                       *)
ReleasePreparation(v) ==
    /\ mob[v].step = "idle" /\ mv[v].stage = "held"
    /\ mv' = [mv EXCEPT ![v].stage = "rolled", ![v].dst = NoPool]
    /\ UNCHANGED <<vol, pool, data, lock, csi, mob, ctl, node>>

(* The claim is dropped, then the Move's terminal phase recorded.           *)
ReleaseClaim(v) ==
    /\ mob[v].step = "idle" /\ vol[v].active
    /\ \/ mv[v].stage \in {"planned", "rolled"}
       \/ /\ mv[v].stage = "approved" /\ vol[v].pool = mv[v].dst
          /\ v \notin data[mv[v].src]
    /\ vol' = [vol EXCEPT ![v].active = FALSE]
    /\ UNCHANGED <<mv, pool, data, lock, csi, mob, ctl, node>>

SettleMove(v) ==
    /\ mob[v].step = "idle" /\ mv[v] # NoMove /\ ~vol[v].active
    /\ mv' = [mv EXCEPT ![v] = NoMove]
    /\ UNCHANGED <<vol, pool, data, lock, csi, mob, ctl, node>>

PassFails(v) ==
    /\ mob[v].step # "idle" /\ mob' = [mob EXCEPT ![v] = IdleCall] /\ Unlock(mob[v].pool)
    /\ UNCHANGED <<vol, mv, pool, data, csi, ctl, node>>

Movement == \E v \in Movers :
    \/ PlanMove(v) \/ GrantPreparation(v) \/ GrantListVolumes(v) \/ GrantListMoves(v)
    \/ ConvertPreparation(v) \/ CopyToDestination(v)
    \/ CommitOwner(v) \/ RetireSource(v) \/ RecoverSource(v) \/ RollbackCopy(v)
    \/ SettleRecovery(v) \/ ReleasePreparation(v) \/ ReleaseClaim(v) \/ SettleMove(v)
    \/ PassFails(v)

-----------------------------------------------------------------------------
(* The registration: the operator, the Pool controller, the Node.           *)

(* The deletion raises the generation, which dates every earlier status.    *)
DeletePool(p) ==
    /\ p \in Mortal /\ pool[p].phase = "live"
    /\ pool' = [pool EXCEPT ![p].phase = "deleting", ![p].current = FALSE]
    /\ UNCHANGED <<vol, mv, data, lock, csi, mob, ctl, node>>

RequestRetirement(p) ==
    /\ p \in Mortal /\ pool[p].phase # "gone" /\ ~pool[p].request
    /\ pool' = [pool EXCEPT ![p].request = TRUE]
    /\ UNCHANGED <<vol, mv, data, lock, csi, mob, ctl, node>>

(* ReconcileAll works from one list of the registrations.                   *)
ListPoolRegistrations(p) ==
    /\ ctl.step = "idle" /\ pool[p].phase # "gone"
    /\ LET retire == pool[p].request /\ ~pool[p].retired
       IN /\ retire \/ pool[p].phase = "deleting"
          /\ ctl' = [IdleControl EXCEPT !.step = "lock", !.pool = p, !.retire = retire,
                        !.approval = pool[p].approval, !.released = pool[p].released]
    /\ UNCHANGED <<vol, mv, pool, data, lock, csi, mob, node>>

(* Mutant: the Pool is checked without the lock of its UID.                 *)
LockForReleaseNot ==
    /\ ctl.step = "lock" /\ ctl' = [ctl EXCEPT !.step = "volumes"]
    /\ UNCHANGED <<vol, mv, pool, data, lock, csi, mob, node>>

LockForRelease ==
    /\ ctl.step = "lock" /\ Lock(ctl.pool) /\ ctl' = [ctl EXCEPT !.step = "volumes"]
    /\ UNCHANGED <<vol, mv, pool, data, csi, mob, node>>

(* poolInventoryBlockers: a report since the deletion, that shows no copy.  *)
InventoryClear(p) == pool[p].current /\ pool[p].inventory = {}

VolumeUsesPool(v, p) == vol[v].pool = p

CheckVolumes ==
    /\ ctl.step = "volumes"
    /\ ctl' = [ctl EXCEPT !.step = "moves", !.clear = InventoryClear(ctl.pool),
                !.used = \E v \in Vols : VolumeUsesPool(v, ctl.pool)]
    /\ UNCHANGED <<vol, mv, pool, data, lock, csi, mob, node>>

MoveUsesPool(v, p) ==
    mv[v] # NoMove /\ p \in {mv[v].src, mv[v].dst}

UnreferencedByMoves(p) == \A v \in Vols : ~MoveUsesPool(v, p)

ApprovePoolRetirement(p) == [pool EXCEPT ![p].retired = TRUE]
ApprovePoolIdentityRelease(p) == [pool EXCEPT ![p].approval = TRUE]

(* The object disappears; the marker on the disk is what it is.             *)
RemovePoolFinalizer(p) ==
    [pool EXCEPT ![p] = [Registered EXCEPT !.phase = "gone", !.marker = pool[p].marker,
                                           !.current = FALSE]]

(* reconcileRetirement and reconcileDeletion, from the list of Moves on: a  *)
(* step of the release at a time, chosen by the listed registration.        *)
ReleaseStep ==
    LET p == ctl.pool
        safe == ~ctl.used /\ UnreferencedByMoves(p) /\ (ctl.retire \/ ctl.clear)
    IN /\ ctl.step = "moves"
       /\ pool' = CASE safe /\ ctl.retire -> ApprovePoolRetirement(p)
                    [] safe /\ ~ctl.retire /\ ~ctl.approval -> ApprovePoolIdentityRelease(p)
                    [] safe /\ ~ctl.retire /\ ctl.approval /\ ctl.released ->
                            RemovePoolFinalizer(p)
                    [] OTHER -> pool
       /\ ctl' = IdleControl /\ Unlock(p)
       /\ UNCHANGED <<vol, mv, data, csi, mob, node>>

(* A pass of the Node over a Pool in use: scan and report in one step, as   *)
(* the next pass corrects what changed in between.  A retired Pool's disk   *)
(* is left alone and its inventory withdrawn.                               *)
ReportInventory(p) ==
    /\ pool[p].phase = "live"
    /\ pool' = [pool EXCEPT ![p].current = ~pool[p].retired,
                    ![p].inventory = IF pool[p].retired THEN {} ELSE data[p]]
    /\ UNCHANGED <<vol, mv, data, lock, csi, mob, ctl, node>>

(* A pass over a Pool that is being deleted: snapshot and scan, the release *)
(* of the identity, the report.                                             *)
ObservePool(p) ==
    /\ node[p].step = "idle" /\ pool[p].phase = "deleting"
    /\ node' = [node EXCEPT ![p] = [IdleNode EXCEPT !.step = "observed",
                    !.approval = pool[p].approval, !.copies = data[p]]]
    /\ UNCHANGED <<vol, mv, pool, data, lock, csi, mob, ctl>>

(* ReleaseEmptyPool looks at the disk again, under the identity lock.       *)
ReleaseEmptyPool(p) == data[p] = {}

(* recordIdentityRelease: only for the approved, empty Pool being deleted.  *)
RecordIdentityRelease(p) ==
    LET n == node[p]
        released == n.approval /\ n.copies = {} /\ ReleaseEmptyPool(p)
    IN /\ n.step = "observed"
       /\ node' = [node EXCEPT ![p].step = "released", ![p].released = released]
       /\ pool' = IF released THEN [pool EXCEPT ![p].marker = FALSE] ELSE pool
       /\ UNCHANGED <<vol, mv, data, lock, csi, mob, ctl>>

(* The removed registration has no status to write.                         *)
SetPoolStatus(p) ==
    LET n == node[p]
    IN /\ n.step = "released"
       /\ pool' = IF pool[p].phase = "gone" THEN pool
                  ELSE [pool EXCEPT ![p].released = n.released, ![p].current = TRUE,
                                    ![p].inventory = n.copies]
       /\ node' = [node EXCEPT ![p] = IdleNode]
       /\ UNCHANGED <<vol, mv, data, lock, csi, mob, ctl>>

Lifecycle ==
    \/ \E p \in Pools :
        \/ DeletePool(p) \/ RequestRetirement(p) \/ ListPoolRegistrations(p)
        \/ ReportInventory(p) \/ ObservePool(p) \/ RecordIdentityRelease(p) \/ SetPoolStatus(p)
    \/ LockForRelease \/ CheckVolumes \/ ReleaseStep

-----------------------------------------------------------------------------
(* An API error ends a call, with whatever it has written so far; a restart *)
(* of the single controller ends every call and frees every lock.           *)

HoldsLock(v) == csi[v].step \in {"volumes", "moves", "measure", "create", "record",
                                 "recheck"}
CallFails(v) ==
    /\ csi[v].step # "idle" /\ Refuse(v)
    /\ IF HoldsLock(v) THEN Unlock(csi[v].pool) ELSE UNCHANGED lock
    /\ UNCHANGED <<vol, mv, pool, data, mob, ctl, node>>

Restart ==
    /\ lock' = [p \in Pools |-> FALSE]
    /\ csi' = [v \in Vols |-> IdleCall] /\ mob' = [v \in Vols |-> IdleCall]
    /\ ctl' = IdleControl
    /\ UNCHANGED <<vol, mv, pool, data, node>>

Next ==
    \/ Creation \/ Existence \/ Movement \/ Lifecycle
    \/ \E v \in Vols : CallFails(v)
    \/ Restart

Spec == Init /\ [][Next]_vars

-----------------------------------------------------------------------------
(* Every variable holds what its declaration says.                          *)
TypeOK ==
    /\ vol \in [Vols -> VolumeObjects] /\ mv \in [Vols -> MoveObjects]
    /\ pool \in [Pools -> PoolObjects]
    /\ data \in [Pools -> SUBSET Vols] /\ lock \in [Pools -> BOOLEAN]
    /\ csi \in [Vols -> Calls] /\ mob \in [Vols -> Calls]
    /\ ctl \in Controls /\ node \in [Pools -> Observations]

(* Whatever the order in which creations and Moves read the ledger and      *)
(* write to it, the volumes a Pool owns and the Moves that hold space in it *)
(* never ask for more than the limit of the Pool: the owner change of a     *)
(* Move does not fall between the two lists of a reader (commitOwner).      *)
ReservedWithinLimit == \A p \in Pools : ReservedBytesForPool(Volumes, p) <= Limit[p]

(* Every copy on the disk of a Pool is paid for: the ledger counts its      *)
(* volume there, as the owner or as the hold of an unfinished Move.         *)
EveryCopyIsReserved ==
    \A p \in Pools : \A v \in data[p] : vol[v].pool = p \/ HeldPool(Volumes, v) = p

(* A Pool that a volume lives on, or that an unsettled Move comes from or   *)
(* holds, keeps its registration, its identity on the disk, and is not      *)
(* retired, however its deletion races with the call that chose it.         *)
ReferencedPoolStays ==
    \A p \in Pools : \A v \in Vols : vol[v].pool = p \/ MoveUsesPool(v, p) =>
        pool[p].phase # "gone" /\ pool[p].marker /\ ~pool[p].retired

=============================================================================
