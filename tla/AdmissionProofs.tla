--------------------------- MODULE AdmissionProofs ---------------------------
(***************************************************************************)
(* The capacity ledger and the life of a Pool registration, for any number *)
(* of volumes and Pools, any sizes and any limits.                         *)
(*                                                                         *)
(* The theorems assume that no unfinished creation vanishes under a call   *)
(* that resumes it: with LateResume the limit is exceeded.                 *)
(***************************************************************************)
EXTENDS AdmissionSteps, FiniteSetTheorems

(* The provers of a leaf that names none.                                    *)
USE SMTT(15), Z3T(15), ZenonT(30)

-----------------------------------------------------------------------------
(* What a step may do to the part of one volume and its Move in the ledger. *)

Keeps(v) ==
    /\ vol'[v].pool = vol[v].pool
    /\ mv'[v].stage = mv[v].stage /\ mv'[v].src = mv[v].src /\ mv'[v].dst = mv[v].dst
Creates(v) ==
    /\ csi[v].step = "create" /\ csi'[v].step = "record" /\ mv' = mv
    /\ vol[v].pool = NoPool /\ vol'[v].pool = csi[v].pool /\ mv[v].stage \notin HoldStages
Leaves(v) == vol'[v].pool = NoPool /\ mv' = mv
Plans(v) ==
    /\ vol'[v].pool = vol[v].pool /\ mv'[v].stage = "planned"
    /\ mv'[v].src = vol[v].pool /\ mv'[v].dst = NoPool
Grants(v) ==
    /\ vol' = vol /\ csi' = csi /\ mob[v].step = "moves"
    /\ mv'[v].stage = "held" /\ mv'[v].src = mv[v].src /\ mv'[v].dst = mob[v].pool
    /\ PreparationPoolFits(Size[v], ReservedBytesForPool(mob[v].seen, mob[v].pool),
                           Limit[mob[v].pool])
Converts(v) ==
    /\ vol' = vol /\ vol[v].pool = mv[v].src /\ mv[v].src # mv[v].dst
    /\ \/ mv[v].stage = "held" /\ mv'[v].stage = "approved"
       \/ mv[v].stage = "approved" /\ mv'[v].stage = "recovering"
    /\ mv'[v].src = mv[v].src /\ mv'[v].dst = mv[v].dst
Commits(v) ==
    /\ mv' = mv /\ mv[v].stage = "approved" /\ ~lock[mv[v].dst] /\ mv[v].dst \in Pools
    /\ vol[v].pool = mv[v].src /\ vol'[v].pool = mv[v].dst
Drops(v) ==
    /\ vol' = vol /\ mv'[v].stage \in {"rolled", "none"}
    /\ mv'[v].src \in {mv[v].src, NoPool} /\ mv'[v].dst \in {mv[v].dst, NoPool}

LedgerWrite(v) ==
    Keeps(v) \/ Creates(v) \/ Leaves(v) \/ Plans(v) \/ Grants(v) \/ Converts(v) \/ Commits(v) \/ Drops(v)

(* A step adds a charge to a Pool only if it holds the Pool's lock.         *)
LEMMA LedgerStep ==
    ASSUME IInv, ~LateResume, [Next]_vars, NEW w \in Vols
    PROVE  LedgerWrite(w)
  <1>0. TypeOK /\ \A v \in Vols : Called(v) /\ Placed(v)
    BY DEF IInv
  <1>1. ASSUME NEW v \in Vols, CreateIntent(v) PROVE Keeps(w) \/ Creates(w)
    <2>1. /\ csi[v].step # "create late"
          /\ csi[v].step = "create" => mv[v].stage \notin HoldStages
      BY <1>0, Zenon DEF Called
    <2>2. vol[v].phase = "none" => vol[v].pool = NoPool
      BY <1>0, Zenon DEF Placed
    <2> QED  BY <1>0, <1>1, <2>1, <2>2, CreateIntentEffect, Zenon DEF Keeps, Creates
  <1>2. ASSUME NEW v \in Vols, RecordCreationIntent(v) PROVE Keeps(w)
    <2>1. csi[v].step # "record late"
      BY <1>0, Zenon DEF Called
    <2> QED  BY <1>0, <1>2, <2>1, RecordCreationIntentEffect, Zenon DEF Keeps
  <1>3. ASSUME NEW v \in Vols, CompleteCreate(v) PROVE Keeps(w)
    BY <1>0, <1>3, CompleteCreateEffect DEF Keeps
  <1>4. ASSUME NEW v \in Vols, FenceVolume(v) PROVE Keeps(w) \/ Leaves(w)
    <2>1. NoVolume.pool = NoPool
      BY DEF NoVolume
    <2> QED  BY <1>0, <1>4, <2>1, FenceVolumeEffect DEF Keeps, Leaves
  <1>5. ASSUME NEW v \in Vols, RemoveVolume(v) PROVE Keeps(w) \/ Leaves(w)
    <2>1. NoVolume.pool = NoPool
      BY DEF NoVolume
    <2> QED  BY <1>0, <1>5, <2>1, RemoveVolumeEffect DEF Keeps, Leaves
  <1>6. ASSUME NEW v \in Vols, PlanMove(v) PROVE Keeps(w) \/ Plans(w)
    BY <1>0, <1>6, PlanMoveEffect DEF Keeps, Plans
  <1>7. ASSUME NEW v \in Vols, GrantListMoves(v) PROVE Keeps(w) \/ Grants(w)
    <2>1. mob[v].pool \in Pools
      BY <1>0, <1>7 DEF GrantListMoves, Placed
    <2> QED  BY <1>0, <1>7, <2>1, GrantListMovesEffect, Zenon DEF Keeps, Grants
  <1>8. ASSUME NEW v \in Vols, ConvertPreparation(v) \/ RecoverSource(v)
        PROVE Keeps(w) \/ Converts(w)
    <2>1. mv[v].stage \in HoldStages => mv[v].src # mv[v].dst
      BY <1>0 DEF Placed
    <2>2. mv[v].stage = "held" => vol[v].pool = mv[v].src
      BY <1>0 DEF Placed
    <2>3. CASE ConvertPreparation(v)
      BY <1>0, <2>1, <2>2, <2>3, ConvertPreparationEffect DEF Keeps, Converts, HoldStages
    <2>4. CASE RecoverSource(v)
      BY <1>0, <2>1, <2>4, RecoverSourceEffect, Zenon DEF Keeps, Converts, HoldStages
    <2> QED  BY <1>8, <2>3, <2>4
  <1>9. ASSUME NEW v \in Vols, CommitOwner(v) PROVE Keeps(w) \/ Commits(w)
    <2>1. mv[v].dst \in Pools
      BY <1>0, <1>9 DEF CommitOwner, Placed, HoldStages
    <2> QED  BY <1>0, <1>9, <2>1, CommitOwnerEffect DEF Keeps, Commits
  <1>10. ASSUME NEW v \in Vols, SettleRecovery(v) PROVE Keeps(w) \/ Drops(w)
    BY <1>0, <1>10, SettleRecoveryEffect DEF Keeps, Drops
  <1>11. ASSUME NEW v \in Vols, ReleasePreparation(v) PROVE Keeps(w) \/ Drops(w)
    BY <1>0, <1>11, ReleasePreparationEffect DEF Keeps, Drops
  <1>12. ASSUME NEW v \in Vols, SettleMove(v) PROVE Keeps(w) \/ Drops(w)
    <2>1. NoMove.stage = "none" /\ NoMove.src = NoPool /\ NoMove.dst = NoPool
      BY DEF NoMove
    <2> QED  BY <1>0, <1>12, <2>1, SettleMoveEffect DEF Keeps, Drops
  <1>13. ASSUME NEW v \in Vols, ReleaseClaim(v) PROVE Keeps(w)
    BY <1>0, <1>13, ReleaseClaimEffect DEF Keeps
  <1>14. CASE UNCHANGED <<vol, mv>>
    BY <1>14 DEF LedgerWrite, Keeps
  <1>15. CASE Restart
    BY <1>0, <1>15, RestartEffect DEF LedgerWrite, Keeps
  <1> QED
    BY <1>1, <1>2, <1>3, <1>4, <1>5, <1>6, <1>7, <1>8, <1>9, <1>10, <1>11, <1>12, <1>13,
       <1>14, <1>15, QuietSteps, StillSteps, AdmissionAssumption, Zenon
       DEF LedgerWrite, Next, Creation, Existence, Movement

(* How a call or a pass comes to the steps in which it relies on its lock.  *)
LEMMA EntryStep ==
    ASSUME IInv, ~LateResume, [Next]_vars, NEW w \in Vols
    PROVE  /\ csi'[w].step = "moves" => csi'[w] = csi[w] \/ ListVolumes(w)
           /\ csi'[w].step = "measure" => csi'[w] = csi[w] \/ PoolFits(w)
           /\ csi'[w].step = "create" => csi'[w] = csi[w] \/ BeginCreate(w)
           /\ Passing(w)' => mob'[w] = mob[w] \/ GrantPreparation(w) \/ GrantListVolumes(w)
  <1> DEFINE Entered ==
          /\ csi'[w].step = "moves" => csi'[w] = csi[w] \/ ListVolumes(w)
          /\ csi'[w].step = "measure" => csi'[w] = csi[w] \/ PoolFits(w)
          /\ csi'[w].step = "create" => csi'[w] = csi[w] \/ BeginCreate(w)
          /\ Passing(w)' => mob'[w] = mob[w] \/ GrantPreparation(w) \/ GrantListVolumes(w)
  <1>0. TypeOK /\ \A v \in Vols : Called(v) /\ Placed(v)
    BY DEF IInv
  <1>1. ASSUME NEW v \in Vols, CreateVolume(v) PROVE Entered
    BY <1>0, <1>1, CreateVolumeEffect, Zenon
  <1>2. ASSUME NEW v \in Vols, LockPool(v) PROVE Entered
    <2>1. csi[v].pool \in Pools
      BY <1>0, <1>2, Zenon DEF Called, LockPool
    <2> QED  BY <1>0, <1>2, <2>1, LockPoolEffect, Zenon
  <1>3. ASSUME NEW v \in Vols, ListVolumes(v) PROVE Entered
    BY <1>0, <1>3, ListVolumesEffect
  <1>4. ASSUME NEW v \in Vols, PoolFits(v) PROVE Entered
    BY <1>0, <1>4, PoolFitsEffect, Zenon
  <1>5. ASSUME NEW v \in Vols, BeginCreate(v) PROVE Entered
    <2>1. csi[v].step # "resume"
      BY <1>0, Zenon DEF Called
    <2> QED  BY <1>0, <1>5, <2>1, BeginCreateEffect, Zenon
  <1>6. ASSUME NEW v \in Vols, CreateIntent(v) PROVE Entered
    <2>1. csi[v].step # "create late"
      BY <1>0, Zenon DEF Called
    <2> QED  BY <1>0, <1>6, <2>1, CreateIntentEffect, Zenon
  <1>7. ASSUME NEW v \in Vols, RecordCreationIntent(v) PROVE Entered
    <2>1. csi[v].step # "record late"
      BY <1>0, Zenon DEF Called
    <2> QED  BY <1>0, <1>7, <2>1, RecordCreationIntentEffect, Zenon
  <1>8. ASSUME NEW v \in Vols, CallFails(v) PROVE Entered
    BY <1>0, <1>8, CallFailsEffect
  <1>9. ASSUME NEW v \in Vols, GrantPreparation(v) PROVE Entered
    BY <1>0, <1>9, GrantPreparationEffect
  <1>10. ASSUME NEW v \in Vols, GrantListVolumes(v) PROVE Entered
    BY <1>0, <1>10, GrantListVolumesEffect
  <1>11. ASSUME NEW v \in Vols, GrantListMoves(v) PROVE Entered
    <2>1. mob[v].pool \in Pools
      BY <1>0, <1>11 DEF GrantListMoves, Placed
    <2> QED  BY <1>0, <1>11, <2>1, GrantListMovesEffect, Zenon DEF Passing
  <1>12. ASSUME NEW v \in Vols, PassFails(v) PROVE Entered
    BY <1>0, <1>12, PassFailsEffect, Zenon DEF Passing
  <1>13. ASSUME Restart PROVE Entered
    BY <1>0, <1>13, RestartEffect, Zenon DEF Passing
  <1>14. ASSUME UNCHANGED <<csi, mob>> PROVE Entered
    BY <1>14, Zenon
  <1> HIDE DEF Entered
  <1>15. Entered
    BY <1>1, <1>2, <1>3, <1>4, <1>5, <1>6, <1>7, <1>8, <1>9, <1>10, <1>11, <1>12, <1>13,
       <1>14, FreeSteps, QuietSteps, AdmissionAssumption, Zenon
       DEF Next, Creation, Existence, Movement
  <1> QED  BY <1>15, Zenon DEF Entered

(* Under the lock of a Pool no volume comes to it, except by the holder.    *)
LEMMA SnapshotKept ==
    ASSUME IInv, ~LateResume, [Next]_vars, NEW p \in Pools, NEW seen, SnapshotOf(seen, p), lock[p],
           \A v \in Vols : Creates(v) => csi[v].pool # p
    PROVE  SnapshotOf(seen, p)'
  <1> SUFFICES ASSUME NEW v \in Vols
               PROVE  /\ vol'[v].pool = p => seen[v].pool = p
                      /\ /\ mv'[v].stage \in {"approved", "recovering"}
                         /\ mv'[v].src = p /\ vol'[v].pool = mv'[v].dst
                         => seen[v].pool \in {mv'[v].src, mv'[v].dst}
    BY DEF SnapshotOf
  <1>0. Placed(v) /\ p # NoPool
    BY AdmissionAssumption DEF IInv
  <1>1. /\ vol[v].pool = p => seen[v].pool = p
        /\ /\ mv[v].stage \in {"approved", "recovering"}
           /\ mv[v].src = p /\ vol[v].pool = mv[v].dst
           => seen[v].pool \in {mv[v].src, mv[v].dst}
    BY Zenon DEF SnapshotOf
  <1>2. CASE Keeps(v)
    BY <1>1, <1>2 DEF Keeps
  <1>3. CASE Creates(v)
    BY <1>0, <1>1, <1>3 DEF Creates, HoldStages
  <1>4. CASE Leaves(v)
    BY <1>0, <1>1, <1>4, Zenon DEF Leaves, Placed, HoldStages
  <1>5. CASE Plans(v) \/ Drops(v) \/ Grants(v)
    BY <1>1, <1>5, Zenon DEF Plans, Drops, Grants
  <1>6. CASE Converts(v)
    BY <1>0, <1>1, <1>6, Zenon DEF Converts
  <1>7. CASE Commits(v)
    BY <1>0, <1>1, <1>7 DEF Commits
  <1> QED  BY <1>2, <1>3, <1>4, <1>5, <1>6, <1>7, LedgerStep, Zenon DEF LedgerWrite

(* A list read just now shows what there is.                                *)
LEMMA SnapshotNow ==
    ASSUME NEW p \in Pools, UNCHANGED <<vol, mv>>, NEW seen, seen = Volumes
    PROVE  SnapshotOf(seen, p)'
  BY DEF SnapshotOf, Volumes

(* Every step keeps what a list taken under the lock says.                  *)
LEMMA SnapshotStep ==
    ASSUME IInv, ~LateResume, [Next]_vars
    PROVE  SnapshotInv'
  <1>0. /\ TypeOK /\ LockInv /\ SnapshotInv
        /\ \A v \in Vols : Called(v) /\ Placed(v)
    BY DEF IInv
  <1>1. ASSUME NEW v \in Vols, csi'[v].step = "moves"
        PROVE SnapshotOf(csi[v].seen, csi[v].pool)'
    <2>1. CASE csi'[v] = csi[v]
      <3>1. csi[v].step = "moves" /\ HoldsLock(v)
        BY <1>1, <2>1 DEF HoldsLock
      <3>2. /\ SnapshotOf(csi[v].seen, csi[v].pool) /\ lock[csi[v].pool]
            /\ csi[v].pool \in Pools
        BY <1>0, <3>1, Zenon DEF SnapshotInv, LockInv, Locked, Called
      <3>3. \A u \in Vols : Creates(u) => csi[u].pool # csi[v].pool
        BY <1>0, <2>1, <3>1, Zenon DEF Creates, LockInv, CallsApart, HoldsLock
      <3>4. PICK p \in Pools : p = csi[v].pool
        BY <3>2
      <3>5. \A seen : seen = csi[v].seen => SnapshotOf(seen, p)'
        BY <3>2, <3>3, <3>4, SnapshotKept
      <3> QED  BY <2>1, <3>4, <3>5 DEF SnapshotOf
    <2>2. CASE ListVolumes(v)
      <3>1. /\ UNCHANGED <<vol, mv>> /\ csi'[v].seen = Volumes /\ csi'[v].pool = csi[v].pool
            /\ csi[v].pool \in Pools
        BY <1>0, <2>2, ListVolumesEffect, Zenon DEF Called
      <3> QED  BY <3>1, SnapshotNow DEF SnapshotOf
    <2> QED  BY <1>1, <2>1, <2>2, EntryStep
  <1>2. ASSUME NEW v \in Vols, mob'[v].step = "moves"
        PROVE SnapshotOf(mob[v].seen, mob[v].pool)'
    <2>1. CASE mob'[v] = mob[v]
      <3>1. mob[v].step = "moves" /\ Passing(v)
        BY <1>2, <2>1 DEF Passing
      <3>2. /\ SnapshotOf(mob[v].seen, mob[v].pool) /\ lock[mob[v].pool]
            /\ mob[v].pool \in Pools
        BY <1>0, <3>1, Zenon DEF SnapshotInv, LockInv, Locked, Placed, Passing
      <3>3. \A u \in Vols : Creates(u) => csi[u].pool # mob[v].pool
        BY <1>0, <2>1, <3>1, Zenon DEF Creates, LockInv, CallsFromPasses, HoldsLock
      <3>4. PICK p \in Pools : p = mob[v].pool
        BY <3>2
      <3>5. \A seen : seen = mob[v].seen => SnapshotOf(seen, p)'
        BY <3>2, <3>3, <3>4, SnapshotKept
      <3> QED  BY <2>1, <3>4, <3>5 DEF SnapshotOf
    <2>2. CASE GrantListVolumes(v)
      <3>1. /\ UNCHANGED <<vol, mv>> /\ mob'[v].seen = Volumes /\ mob'[v].pool = mob[v].pool
            /\ mob[v].pool \in Pools
        BY <1>0, <2>2, GrantListVolumesEffect, Zenon DEF Placed
      <3> QED  BY <3>1, SnapshotNow DEF SnapshotOf
    <2>3. CASE GrantPreparation(v)
      BY <1>0, <1>2, <2>3, GrantPreparationEffect
    <2> QED  BY <1>2, <2>1, <2>2, <2>3, EntryStep, Zenon DEF Passing
  <1> QED  BY <1>1, <1>2 DEF SnapshotInv

-----------------------------------------------------------------------------
(* Counting bytes.                                                          *)

Units(vols) == UNION {{v} \X (1..Size[v]) : v \in vols}

(* A volume contributes its size to the bytes of a set.                     *)
LEMMA OneVolume ==
    ASSUME NEW v \in Vols
    PROVE  /\ IsFiniteSet({v} \X (1..Size[v]))
           /\ Cardinality({v} \X (1..Size[v])) = Size[v]
  <1>1. Size[v] \in Nat
    BY AdmissionAssumption
  <1>2. IsFiniteSet(1..Size[v]) /\ Cardinality(1..Size[v]) = Size[v]
    BY <1>1, FS_Interval
  <1>3. IsFiniteSet({v}) /\ Cardinality({v}) = 1
    BY FS_Singleton
  <1>4. /\ IsFiniteSet({v} \X (1..Size[v]))
        /\ Cardinality({v} \X (1..Size[v])) = Cardinality({v}) * Cardinality(1..Size[v])
    BY <1>2, <1>3, FS_Product, Zenon
  <1> QED  BY <1>1, <1>2, <1>3, <1>4

(* The bytes of a set of volumes are a natural number.                      *)
LEMMA UnitsFinite ==
    ASSUME NEW S \in SUBSET Vols
    PROVE  IsFiniteSet(Units(S)) /\ Cardinality(Units(S)) \in Nat
  <1> DEFINE f == [v \in S |-> {v} \X (1..Size[v])]
             T == {{v} \X (1..Size[v]) : v \in S}
  <1>1. IsFiniteSet(S)
    BY AdmissionAssumption, FS_Subset
  <1>2. f \in Surjection(S, T)
    BY DEF Surjection
  <1>3. IsFiniteSet(T)
    BY <1>1, <1>2, FS_Surjection DEF ExistsSurjection
  <1>4. \A t \in T : IsFiniteSet(t)
    BY OneVolume
  <1>5. IsFiniteSet(UNION T)
    BY <1>3, <1>4, FS_UNION, Zenon
  <1> QED  BY <1>5, FS_CardinalityType DEF Units

(* More volumes ask for at least as many bytes.                             *)
LEMMA BytesMonotone ==
    ASSUME NEW T \in SUBSET Vols, NEW S \in SUBSET T
    PROVE  Bytes(S) \in Nat /\ Bytes(T) \in Nat /\ Bytes(S) <= Bytes(T)
  <1>1. Units(S) \subseteq Units(T)
    BY DEF Units
  <1>2. IsFiniteSet(Units(T)) /\ Cardinality(Units(T)) \in Nat /\ Cardinality(Units(S)) \in Nat
    BY UnitsFinite
  <1>3. Cardinality(Units(S)) <= Cardinality(Units(T))
    BY <1>1, <1>2, FS_Subset
  <1> QED  BY <1>2, <1>3 DEF Bytes, Units

(* Volumes counted twice ask for more than their union; others do not.      *)
LEMMA BytesUnion ==
    ASSUME NEW S \in SUBSET Vols, NEW T \in SUBSET Vols
    PROVE  /\ Bytes(S) \in Nat /\ Bytes(T) \in Nat /\ Bytes(S \cup T) \in Nat
           /\ Bytes(S \cup T) <= Bytes(S) + Bytes(T)
           /\ S \cap T = {} => Bytes(S \cup T) = Bytes(S) + Bytes(T)
  <1>1. Units(S \cup T) = Units(S) \cup Units(T)
    BY DEF Units
  <1>2. /\ IsFiniteSet(Units(S)) /\ Cardinality(Units(S)) \in Nat
        /\ IsFiniteSet(Units(T)) /\ Cardinality(Units(T)) \in Nat
        /\ Cardinality(Units(S \cup T)) \in Nat
    BY UnitsFinite
  <1>3. /\ IsFiniteSet(Units(S) \cap Units(T))
        /\ Cardinality(Units(S) \cap Units(T)) \in Nat
    BY <1>2, FS_Intersection, FS_CardinalityType, Zenon
  <1>4. Cardinality(Units(S) \cup Units(T)) =
            Cardinality(Units(S)) + Cardinality(Units(T)) - Cardinality(Units(S) \cap Units(T))
    BY <1>2, FS_Union
  <1>5. S \cap T = {} => Units(S) \cap Units(T) = {}
    BY DEF Units
  <1>6. Cardinality({}) = 0
    BY FS_EmptySet
  <1>7. Bytes(S) = Cardinality(Units(S)) /\ Bytes(T) = Cardinality(Units(T))
        /\ Bytes(S \cup T) = Cardinality(Units(S \cup T))
    BY DEF Bytes, Units
  <1>8. Bytes(S \cup T) = Bytes(S) + Bytes(T) - Cardinality(Units(S) \cap Units(T))
    BY <1>1, <1>4, <1>7
  <1>9. S \cap T = {} => Cardinality(Units(S) \cap Units(T)) = 0
    BY <1>5, <1>6
  <1>10. Bytes(S) \in Nat /\ Bytes(T) \in Nat /\ Bytes(S \cup T) \in Nat
    BY <1>2, <1>7
  <1> QED  BY <1>3, <1>8, <1>9, <1>10

(* A volume more asks for its size more.                                    *)
LEMMA BytesAdd ==
    ASSUME NEW S \in SUBSET Vols, NEW v \in Vols
    PROVE  /\ Size[v] \in Nat /\ Bytes(S) \in Nat
           /\ Bytes(S \cup {v}) \in Nat /\ Bytes(S \cup {v}) <= Bytes(S) + Size[v]
  <1>1. Bytes({v}) = Size[v]
    <2>1. UNION {{w} \X (1..Size[w]) : w \in {v}} = {v} \X (1..Size[v])
      OBVIOUS
    <2> QED  BY <2>1, OneVolume DEF Bytes
  <1>2. {v} \in SUBSET Vols
    OBVIOUS
  <1> QED  BY <1>1, <1>2, BytesUnion, AdmissionAssumption, Zenon

-----------------------------------------------------------------------------
(* The limit.                                                               *)

(* The volumes charged to a Pool, now and after a step.                     *)
LEMMA ChargedElements ==
    ASSUME NEW v \in Vols, NEW p \in Pools
    PROVE  /\ v \in Charged(p) <=>
                \/ vol[v].pool = p
                \/ mv[v].stage = "held" /\ mv[v].dst = p
                \/ /\ mv[v].stage \in {"approved", "recovering"}
                   /\ IF vol[v].pool = mv[v].dst THEN mv[v].src = p ELSE mv[v].dst = p
           /\ v \in Charged(p)' <=>
                \/ vol'[v].pool = p
                \/ mv'[v].stage = "held" /\ mv'[v].dst = p
                \/ /\ mv'[v].stage \in {"approved", "recovering"}
                   /\ IF vol'[v].pool = mv'[v].dst THEN mv'[v].src = p ELSE mv'[v].dst = p
  <1>0. p # NoPool
    BY AdmissionAssumption
  <1>1. v \in Charged(p) <=> vol[v].pool = p \/ HeldPool(Volumes, v) = p
    BY DEF Charged, Owned, Held, Volumes
  <1>2. v \in Charged(p)' <=> vol'[v].pool = p \/ HeldPool(Volumes, v)' = p
    BY DEF Charged, Owned, Held, Volumes
  <1> QED  BY <1>0, <1>1, <1>2, HeldPools

(* What a reader sums is at least what the ledger counts now.               *)
LEMMA SnapshotCounts ==
    ASSUME IInv, NEW p \in Pools, NEW seen, SnapshotOf(seen, p)
    PROVE  /\ Bytes(Charged(p)) \in Nat /\ ReservedBytesForPool(seen, p) \in Nat
           /\ Bytes(Charged(p)) <= ReservedBytesForPool(seen, p)
  <1>1. Charged(p) \subseteq Owned(seen, p) \cup Held(seen, p)
    <2> SUFFICES ASSUME NEW v \in Vols, v \in Charged(p)
                 PROVE  v \in Owned(seen, p) \cup Held(seen, p)
      BY DEF Charged, Owned, Held
    <2>0. Placed(v) /\ p # NoPool
      BY AdmissionAssumption DEF IInv
    <2>1. /\ vol[v].pool = p => seen[v].pool = p
          /\ /\ mv[v].stage \in {"approved", "recovering"}
             /\ mv[v].src = p /\ vol[v].pool = mv[v].dst
             => seen[v].pool \in {mv[v].src, mv[v].dst}
      BY DEF SnapshotOf
    <2>2. seen[v].pool = p \/ HeldPool(seen, v) = p
      BY <2>0, <2>1, ChargedElements DEF HeldPool, Placed, HoldStages
    <2> QED  BY <2>2 DEF Owned, Held
  <1>2. Owned(seen, p) \in SUBSET Vols /\ Held(seen, p) \in SUBSET Vols
    BY DEF Owned, Held
  <1>3. Bytes(Charged(p)) <= Bytes(Owned(seen, p) \cup Held(seen, p))
    BY <1>1, <1>2, BytesMonotone
  <1>4. Charged(p) \in SUBSET Vols
    BY <1>1, <1>2
  <1>5. /\ Bytes(Charged(p)) \in Nat /\ Bytes(Owned(seen, p)) \in Nat
        /\ Bytes(Held(seen, p)) \in Nat /\ Bytes(Owned(seen, p) \cup Held(seen, p)) \in Nat
    BY <1>2, <1>4, UnitsFinite, Zenon DEF Bytes, Units
  <1>6. Bytes(Owned(seen, p) \cup Held(seen, p)) <= Bytes(Owned(seen, p)) + Bytes(Held(seen, p))
    BY <1>2, BytesUnion
  <1> HIDE DEF Bytes
  <1> QED  BY <1>3, <1>5, <1>6 DEF ReservedBytesForPool

(* A step adds a volume to a Pool only by a create or a grant under its     *)
(* lock, and then one.                                                      *)
LEMMA ChargedStep ==
    ASSUME IInv, ~LateResume, [Next]_vars, NEW p \in Pools, NEW v \in Vols, v \in Charged(p)'
    PROVE  \/ v \in Charged(p)
           \/ Creates(v) /\ csi[v].pool = p
           \/ Grants(v) /\ mob[v].pool = p
  <1>0. Placed(v) /\ p # NoPool
    BY AdmissionAssumption DEF IInv
  <1>1. CASE Keeps(v)
    BY <1>1, ChargedElements DEF Keeps
  <1>2. CASE Creates(v)
    BY <1>2, ChargedElements DEF Creates, HoldStages
  <1>3. CASE Leaves(v)
    BY <1>0, <1>3, ChargedElements, ZenonT(40) DEF Leaves, Placed, HoldStages
  <1>4. CASE Plans(v) \/ Drops(v)
    BY <1>4, ChargedElements, Zenon DEF Plans, Drops
  <1>5. CASE Grants(v)
    BY <1>5, ChargedElements, Zenon DEF Grants
  <1>6. CASE Converts(v)
    BY <1>6, ChargedElements, Zenon DEF Converts
  <1>7. CASE Commits(v)
    BY <1>7, ChargedElements DEF Commits
  <1> QED  BY <1>1, <1>2, <1>3, <1>4, <1>5, <1>6, <1>7, LedgerStep, Zenon DEF LedgerWrite

Adds(v, p) == \/ Creates(v) /\ csi[v].pool = p
              \/ Grants(v) /\ mob[v].pool = p

(* Two additions to one Pool are one: both would hold its lock.             *)
LEMMA OneAdds ==
    ASSUME IInv, NEW p \in Pools, NEW v \in Vols, NEW w \in Vols, Adds(v, p), Adds(w, p)
    PROVE  v = w
  <1>1. LockInv
    BY DEF IInv
  <1>2. \A u \in Vols : Adds(u, p) => \/ HoldsLock(u) /\ csi[u].pool = p
                                      \/ Passing(u) /\ mob[u].pool = p
    BY Zenon DEF Adds, Creates, Grants, HoldsLock, Passing
  <1> QED  BY <1>1, <1>2, Zenon DEF LockInv, CallsApart, PassesApart, CallsFromPasses

(* The bytes charged to a Pool are a natural number.                        *)
LEMMA ChargedTypes ==
    ASSUME NEW p \in Pools
    PROVE  /\ Charged(p) \in SUBSET Vols /\ Charged(p)' \in SUBSET Vols
           /\ Bytes(Charged(p))' = Bytes(Charged(p)')
           /\ Bytes(Charged(p)) \in Nat /\ Bytes(Charged(p)') \in Nat
           /\ Limit[p] \in Nat /\ \A v \in Vols : Size[v] \in Nat
  <1>1. Charged(p) \in SUBSET Vols /\ Charged(p)' \in SUBSET Vols
    BY Zenon DEF Charged, Owned, Held
  <1>2. Bytes(Charged(p))' = Bytes(Charged(p)')
    BY DEF Bytes
  <1>3. Bytes(Charged(p)) \in Nat /\ Bytes(Charged(p)') \in Nat
    BY <1>1, BytesMonotone
  <1> QED  BY <1>1, <1>2, <1>3, AdmissionAssumption

(* Every step keeps the charges of each Pool within its limit.              *)
LEMMA CapacityStep ==
    ASSUME IInv, ~LateResume, [Next]_vars
    PROVE  CapacityInv'
  <1>0. /\ TypeOK /\ LockInv /\ SnapshotInv /\ CapacityInv
        /\ \A v \in Vols : Called(v) /\ Placed(v)
    BY DEF IInv
  <1>1. ASSUME NEW p \in Pools, \A v \in Vols : ~Adds(v, p)
        PROVE Bytes(Charged(p)') <= Bytes(Charged(p))
    <2>1. Charged(p)' \subseteq Charged(p)
      BY <1>1, ChargedStep, ChargedTypes DEF Adds
    <2> QED  BY <2>1, ChargedTypes, BytesMonotone
  <1>2. ASSUME NEW p \in Pools, NEW v \in Vols, Adds(v, p)
        PROVE Bytes(Charged(p)') <= Bytes(Charged(p)) + Size[v]
    <2>1. Charged(p)' \subseteq Charged(p) \cup {v}
      BY <1>2, ChargedStep, ChargedTypes, OneAdds, Zenon DEF Adds
    <2>2. Charged(p) \cup {v} \in SUBSET Vols
      BY ChargedTypes
    <2>3. Bytes(Charged(p)') <= Bytes(Charged(p) \cup {v})
      BY <2>1, <2>2, BytesMonotone
    <2>4. /\ Bytes(Charged(p) \cup {v}) \in Nat
          /\ Bytes(Charged(p) \cup {v}) <= Bytes(Charged(p)) + Size[v]
      BY ChargedTypes, BytesAdd
    <2> QED  BY <2>3, <2>4, ChargedTypes
  <1>3. ASSUME NEW p \in Pools, NEW v \in Vols, Adds(v, p)
        PROVE Bytes(Charged(p)) + Size[v] <= Limit[p]
    <2>1. CASE Creates(v) /\ csi[v].pool = p
      BY <1>0, <2>1 DEF Creates, CapacityInv
    <2>2. CASE Grants(v) /\ mob[v].pool = p
      <3>1. SnapshotOf(mob[v].seen, p)
        BY <1>0, <2>2 DEF Grants, SnapshotInv
      <3>2. /\ Bytes(Charged(p)) <= ReservedBytesForPool(mob[v].seen, p)
            /\ ReservedBytesForPool(mob[v].seen, p) \in Nat
        BY <3>1, SnapshotCounts
      <3>3. Size[v] + ReservedBytesForPool(mob[v].seen, p) <= Limit[p]
        BY <2>2 DEF Grants, PreparationPoolFits
      <3> QED  BY <3>2, <3>3, ChargedTypes
    <2> QED  BY <1>3, <2>1, <2>2 DEF Adds
  <1>4. ASSUME NEW p \in Pools PROVE Bytes(Charged(p)') <= Limit[p]
    <2>1. Bytes(Charged(p)) <= Limit[p]
      BY <1>0 DEF CapacityInv
    <2>2. CASE \A v \in Vols : ~Adds(v, p)
      BY <1>1, <2>1, <2>2, ChargedTypes
    <2>3. CASE \E v \in Vols : Adds(v, p)
      BY <1>2, <1>3, <2>3, ChargedTypes
    <2> QED  BY <2>2, <2>3
  <1>5. ASSUME NEW v \in Vols, NEW p \in Pools, csi'[v].step \in {"measure", "create"},
               csi'[v].pool = p
        PROVE  Bytes(Charged(p)') + Size[v] <= Limit[p]
    <2>1. CASE csi'[v] = csi[v]
      <3>1. csi[v].step \in {"measure", "create"} /\ csi[v].pool = p /\ HoldsLock(v)
        BY <1>5, <2>1 DEF HoldsLock
      <3>2. Bytes(Charged(p)) + Size[v] <= Limit[p]
        BY <1>0, <3>1 DEF CapacityInv
      <3>3. ASSUME NEW u \in Vols, Adds(u, p) PROVE FALSE
        <4>1. CASE Creates(u) /\ csi[u].pool = p
          <5>1. HoldsLock(u) /\ csi'[u].step = "record"
            BY <4>1 DEF Creates, HoldsLock
          <5>2. u = v
            BY <1>0, <3>1, <4>1, <5>1, Zenon DEF LockInv, CallsApart
          <5> QED  BY <1>5, <5>1, <5>2
        <4>2. CASE Grants(u) /\ mob[u].pool = p
          <5>1. Passing(u)
            BY <4>2 DEF Grants, Passing
          <5> QED  BY <1>0, <3>1, <4>2, <5>1, Zenon DEF LockInv, CallsFromPasses
        <4> QED  BY <3>3, <4>1, <4>2 DEF Adds
      <3> QED  BY <1>1, <3>2, <3>3, ChargedTypes
    <2>2. CASE UNCHANGED <<vol, mv>> /\ Bytes(Charged(p)) + Size[v] <= Limit[p]
      <3>1. Charged(p)' = Charged(p)
        BY <2>2 DEF Charged, Owned, Held, Volumes, HeldPool
      <3> QED  BY <2>2, <3>1
    <2>3. CASE BeginCreate(v)
      <3>1. csi[v].step # "resume"
        BY <1>0, Zenon DEF Called
      <3>2. UNCHANGED <<vol, mv>> /\ csi[v].step = "measure" /\ csi[v].pool = p
        BY <1>0, <1>5, <2>3, <3>1, BeginCreateEffect
      <3> QED  BY <1>0, <2>2, <3>2 DEF CapacityInv
    <2>4. CASE PoolFits(v)
      <3>1. /\ UNCHANGED <<vol, mv>> /\ csi[v].step = "moves" /\ csi[v].pool = p
            /\ FitsReservation(Size[v], ReservedBytesForPool(csi[v].seen, p), Limit[p])
        BY <1>0, <1>5, <2>4, PoolFitsEffect, Zenon
      <3>2. SnapshotOf(csi[v].seen, p)
        BY <1>0, <3>1, Zenon DEF SnapshotInv
      <3>3. /\ Bytes(Charged(p)) <= ReservedBytesForPool(csi[v].seen, p)
            /\ ReservedBytesForPool(csi[v].seen, p) \in Nat
        BY <3>2, SnapshotCounts
      <3>4. Size[v] + ReservedBytesForPool(csi[v].seen, p) <= Limit[p]
        BY <3>1, <3>3, ChargedTypes DEF FitsReservation
      <3> QED  BY <2>2, <3>1, <3>3, <3>4, ChargedTypes
    <2> QED  BY <1>5, <2>1, <2>3, <2>4, EntryStep, Zenon
  <1>6. \A v \in Vols : csi'[v].step \in {"measure", "create"} => csi'[v].pool \in Pools
    BY CalledStep, Zenon DEF Called
  <1>7. \A p \in Pools : Bytes(Charged(p))' <= Limit[p]
    BY <1>4, ChargedTypes
  <1>8. \A v \in Vols, p \in Pools : csi'[v].step \in {"measure", "create"} /\ csi'[v].pool = p =>
            Bytes(Charged(p))' + Size[v] <= Limit[p]
    BY <1>5, ChargedTypes
  <1> QED  BY <1>6, <1>7, <1>8, Zenon
    DEF CapacityInv, Bytes, Charged, Owned, Held, HeldPool, Volumes

-----------------------------------------------------------------------------
(* The release of a registration.                                           *)

(* The Pools a volume and its Move name, now and after a step.              *)
LEMMA ReferencesElements ==
    ASSUME NEW v \in Vols, NEW p \in Pools
    PROVE  /\ References(v, p) <=> p \in {vol[v].pool, mv[v].src, mv[v].dst}
           /\ References(v, p)' <=> p \in {vol'[v].pool, mv'[v].src, mv'[v].dst}
  <1>1. p # NoPool /\ NoMove.src = NoPool /\ NoMove.dst = NoPool
    BY AdmissionAssumption DEF NoMove
  <1> QED  BY <1>1 DEF References, MoveUsesPool

(* A new reference to a Pool is an addition to its ledger.                  *)
LEMMA ReferencesStep ==
    ASSUME IInv, ~LateResume, [Next]_vars, NEW p \in Pools, NEW v \in Vols, References(v, p)'
    PROVE  References(v, p) \/ Adds(v, p)
  <1>0. p # NoPool
    BY AdmissionAssumption
  <1>1. CASE Keeps(v) \/ Leaves(v) \/ Plans(v) \/ Drops(v)
    BY <1>0, <1>1, ReferencesElements DEF Keeps, Leaves, Plans, Drops
  <1>2. CASE Creates(v)
    BY <1>2, ReferencesElements, Zenon DEF Creates, Adds
  <1>3. CASE Grants(v)
    BY <1>3, ReferencesElements, Zenon DEF Grants, Adds
  <1>4. CASE Converts(v) \/ Commits(v)
    BY <1>4, ReferencesElements, Zenon DEF Converts, Commits
  <1> QED  BY <1>1, <1>2, <1>3, <1>4, LedgerStep DEF LedgerWrite

(* The steps of a creation, of a volume or of a Move leave the Pools and    *)
(* the controller's release alone.                                          *)
LEMMA PoolFrame ==
    ASSUME Creation \/ Existence \/ Movement \/ (\E v \in Vols : CallFails(v)) \/ UNCHANGED vars
    PROVE  UNCHANGED <<pool, node, ctl>>
  <1>1. Creation => UNCHANGED <<pool, node, ctl>>
    BY Zenon DEF Creation, CreateVolume, LockPool, ListVolumes, PoolFits, BeginCreate,
         CreateIntent,
           RecordCreationIntent
  <1>2. Existence => UNCHANGED <<pool, node, ctl>>
    BY DEF Existence, CreateCopy, CompleteCreate, FenceVolume, PurgeCopy, RemoveVolume
  <1>3. Movement => UNCHANGED <<pool, node, ctl>>
    BY Zenon DEF Movement, PlanMove, GrantPreparation, GrantListVolumes, GrantListMoves,
           ConvertPreparation, CopyToDestination, CommitOwner, RetireSource, RecoverSource,
           RollbackCopy, SettleRecovery, ReleasePreparation, ReleaseClaim, SettleMove, PassFails
  <1> QED  BY <1>1, <1>2, <1>3 DEF CallFails, vars

(* A Pool never becomes Ready again, and only a release decides to close it. *)
LEMMA PoolStep ==
    ASSUME IInv, [Next]_vars, NEW q \in Pools
    PROVE  /\ PoolReady(q)' => PoolReady(q)
           /\ Closed(q)' => \/ Closed(q)
                            \/ /\ ReleaseStep /\ ctl.step = "moves" /\ q = ctl.pool
                               /\ ~ctl.used /\ UnreferencedByMoves(q)
  <1>0. TypeOK /\ ReleaseInv
    BY DEF IInv
  <1>1. ASSUME UNCHANGED <<pool, node>>
        PROVE  (PoolReady(q)' => PoolReady(q)) /\ (Closed(q)' => Closed(q))
    BY <1>1 DEF PoolReady, Closed
  <1>2. ASSUME NEW p \in Pools, DeletePool(p) \/ RequestRetirement(p)
        PROVE  (PoolReady(q)' => PoolReady(q)) /\ (Closed(q)' => Closed(q))
    BY <1>0, <1>2, OperatorEffect DEF Closed
  <1>3. ASSUME NEW p \in Pools, ReportInventory(p)
        PROVE  (PoolReady(q)' => PoolReady(q)) /\ (Closed(q)' => Closed(q))
    BY <1>0, <1>3, ReportInventoryEffect DEF Closed
  <1>4. ASSUME NEW p \in Pools, ObservePool(p)
        PROVE  (PoolReady(q)' => PoolReady(q)) /\ (Closed(q)' => Closed(q))
    BY <1>0, <1>4, ObservePoolEffect DEF Closed, PoolReady
  <1>5. ASSUME NEW p \in Pools, RecordIdentityRelease(p)
        PROVE  (PoolReady(q)' => PoolReady(q)) /\ (Closed(q)' => Closed(q))
    <2>1. pool'[q].marker # pool[q].marker => node[q].approval
      BY <1>0, <1>5, RecordIdentityReleaseEffect, Zenon
    <2> QED  BY <1>0, <1>5, <2>1, RecordIdentityReleaseEffect, Zenon DEF Closed
  <1>6. ASSUME NEW p \in Pools, SetPoolStatus(p)
        PROVE  (PoolReady(q)' => PoolReady(q)) /\ (Closed(q)' => Closed(q))
    BY <1>0, <1>6, SetPoolStatusEffect DEF Closed
  <1>7. ASSUME ReleaseStep
        PROVE  /\ PoolReady(q)' => PoolReady(q)
               /\ Closed(q)' => Closed(q) \/ (/\ ctl.step = "moves" /\ q = ctl.pool
                                              /\ ~ctl.used /\ UnreferencedByMoves(q))
    <2>1. ctl.pool \in Pools
      BY <1>0, <1>7 DEF ReleaseInv, ReleaseStep
    <2>2. /\ UNCHANGED node /\ PoolReady(q)' => PoolReady(q)
      BY <1>0, <1>7, <2>1, ReleaseStepEffect
    <2> QED  BY <1>0, <1>7, <2>1, ReleaseStepEffect DEF Closed
  <1>8. ASSUME (\E p \in Pools : ListPoolRegistrations(p)) \/ LockForRelease \/ CheckVolumes
               \/ Restart
        PROVE  UNCHANGED <<pool, node>>
    BY <1>8, Zenon DEF ListPoolRegistrations, LockForRelease, CheckVolumes, Restart
  <1> QED
    BY <1>1, <1>2, <1>3, <1>4, <1>5, <1>6, <1>7, <1>8, PoolFrame
      DEF Next, Lifecycle

(* How the release of a Pool gets to where it is.                           *)
LEMMA ReleaseEntry ==
    ASSUME IInv, [Next]_vars, ctl'.step # "idle"
    PROVE  \/ ctl' = ctl \/ \E p \in Pools : ListPoolRegistrations(p)
           \/ LockForRelease \/ CheckVolumes
  <1>1. TypeOK /\ ReleaseInv
    BY DEF IInv
  <1>2. ~Restart
    BY <1>1, RestartEffect
  <1>3. ~ReleaseStep
    <2>1. ReleaseStep => ctl.pool \in Pools
      BY <1>1 DEF ReleaseInv, ReleaseStep
    <2> QED  BY <1>1, <2>1, ReleaseStepEffect
  <1> QED
    BY <1>2, <1>3, PoolFrame, FreeSteps DEF Next, Lifecycle

(* Every step keeps what the release of a Pool has found.                   *)
LEMMA ReleaseInvStep ==
    ASSUME IInv, ~LateResume, [Next]_vars
    PROVE  ReleaseInv'
  <1>0. /\ TypeOK /\ LockInv /\ ReleaseInv
        /\ \A v \in Vols : Called(v) /\ Placed(v)
    BY DEF IInv
  <1>1. ASSUME ctl'.step # "idle"
        PROVE  /\ ctl'.pool \in Pools
               /\ \A q \in Pools : ctl'.pool = q => ~PoolReady(q)'
    <2>1. ctl'.pool \in Pools /\ \A q \in Pools : ctl'.pool = q => ~PoolReady(q)
      <3>1. CASE ctl' = ctl
        BY <1>0, <1>1, <3>1 DEF ReleaseInv
      <3>2. ASSUME NEW p \in Pools, ListPoolRegistrations(p)
            PROVE ctl'.pool = p /\ ~PoolReady(p)
        BY <1>0, <3>2, ListPoolRegistrationsEffect
      <3>3. CASE LockForRelease
        BY <1>0, <3>3, LockForReleaseEffect DEF ReleaseInv, LockForRelease
      <3>4. CASE CheckVolumes
        BY <1>0, <3>4, CheckVolumesEffect DEF ReleaseInv, CheckVolumes
      <3> QED  BY <1>1, <3>1, <3>2, <3>3, <3>4, ReleaseEntry
    <2> QED  BY <2>1, PoolStep
  <1>2. ASSUME ctl'.step = "moves", ~ctl'.used, NEW v \in Vols PROVE vol'[v].pool # ctl'.pool
    <2>1. CASE ctl' = ctl
      <3>1. /\ Releasing /\ lock[ctl.pool] /\ ctl.pool \in Pools
            /\ vol[v].pool # ctl.pool
        BY <1>0, <1>2, <2>1, Zenon DEF LockInv, Locked, ReleaseInv, Releasing
      <3>2. Creates(v) => csi[v].pool # ctl.pool
        BY <1>0, <3>1, Zenon DEF Creates, LockInv, ReleaseApart, HoldsLock
      <3>3. ctl.pool # NoPool
        BY <3>1, AdmissionAssumption
      <3> QED
        BY <2>1, <3>1, <3>2, <3>3, LedgerStep, Zenon
           DEF LedgerWrite, Keeps, Creates, Leaves, Plans, Grants, Converts, Commits, Drops
    <2>2. CASE CheckVolumes
      BY <1>0, <1>2, <2>2, CheckVolumesEffect DEF ReleaseInv, CheckVolumes
    <2>3. ~LockForRelease /\ \A p \in Pools : ~ListPoolRegistrations(p)
      BY <1>0, <1>2, LockForReleaseEffect, ListPoolRegistrationsEffect
        DEF ReleaseInv, LockForRelease
    <2> QED  BY <1>2, <2>1, <2>2, <2>3, ReleaseEntry
  <1>3. ASSUME NEW p \in Pools, Closed(p)'
        PROVE  /\ ~PoolReady(p)
               /\ \A v \in Vols : /\ ~References(v, p)
                                  /\ csi[v].step = "create" => csi[v].pool # p
                                  /\ Passing(v) => mob[v].pool # p
    <2>1. CASE Closed(p)
      BY <1>0, <2>1, Zenon DEF ReleaseInv
    <2>2. CASE ctl.step = "moves" /\ p = ctl.pool /\ ~ctl.used /\ UnreferencedByMoves(p)
      BY <1>0, <2>2, Zenon
        DEF ReleaseInv, References, UnreferencedByMoves, LockInv, ReleaseApart, Releasing,
            HoldsLock
    <2> QED  BY <1>3, <2>1, <2>2, PoolStep, Zenon
  <1>4. ASSUME NEW p \in Pools, Closed(p)', NEW v \in Vols
        PROVE  /\ ~References(v, p)'
               /\ csi'[v].step = "create" => csi'[v].pool # p
               /\ Passing(v)' => mob'[v].pool # p
    <2>1. ~References(v, p)'
      BY <1>3, <1>4, ReferencesStep, Zenon DEF Adds, Creates, Grants, Passing
    <2>2. ASSUME csi'[v].step = "create" PROVE csi'[v].pool # p
      <3>1. CASE csi'[v] = csi[v]
        BY <1>3, <1>4, <2>2, <3>1, Zenon
      <3>2. CASE BeginCreate(v)
        <4>1. csi[v].step # "resume"
          BY <1>0, Zenon DEF Called
        <4> QED  BY <1>0, <1>3, <1>4, <2>2, <3>2, <4>1, BeginCreateEffect, Zenon
      <3> QED  BY <2>2, <3>1, <3>2, EntryStep, Zenon
    <2>3. ASSUME Passing(v)' PROVE mob'[v].pool # p
      <3>1. CASE mob'[v] = mob[v]
        BY <1>3, <1>4, <2>3, <3>1 DEF Passing
      <3>2. CASE GrantPreparation(v)
        BY <1>0, <1>3, <1>4, <3>2, GrantPreparationEffect
      <3>3. CASE GrantListVolumes(v)
        BY <1>0, <1>3, <1>4, <3>3, GrantListVolumesEffect, Zenon DEF Passing
      <3> QED  BY <2>3, <3>1, <3>2, <3>3, EntryStep
    <2> QED  BY <2>1, <2>2, <2>3
  <1>5. ASSUME NEW p \in Pools, Closed(p)' PROVE ~PoolReady(p)'
    BY <1>3, <1>5, PoolStep
  <1>6. (ctl.step # "idle" => ctl.pool \in Pools /\ ~PoolReady(ctl.pool))'
    BY <1>1 DEF PoolReady
  <1> QED  BY <1>2, <1>4, <1>5, <1>6, Zenon DEF ReleaseInv

-----------------------------------------------------------------------------
(* The inductive invariant.                                                 *)

(* The invariant holds initially.                                           *)
LEMMA InitIInv == Init => IInv
  <1> SUFFICES ASSUME Init PROVE IInv
    OBVIOUS
  <1>1. TypeOK
    BY InitType
  <1>2. /\ \A v \in Vols : /\ csi[v].step = "idle" /\ mob[v].step = "idle" /\ ~vol[v].active
                           /\ vol[v].phase = "none" /\ vol[v].pool = NoPool
                           /\ mv[v] = NoMove /\ mv[v].stage = "none"
                           /\ mv[v].src = NoPool /\ mv[v].dst = NoPool
        /\ ctl.step = "idle"
    BY Zenon DEF Init, IdleCall, NoVolume, NoMove, IdleControl
  <1>3. \A p \in Pools : /\ data[p] = {} /\ PoolReady(p) /\ pool[p].marker /\ ~pool[p].retired
                         /\ ~pool[p].approval /\ ~node[p].approval /\ pool[p].phase = "live"
    BY DEF Init, Registered, IdleNode, PoolReady
  <1>4. \A v \in Vols : Called(v) /\ Placed(v) /\ Copied(v)
    BY <1>2, <1>3, Zenon DEF Called, Placed, Copied, HoldStages
  <1>5. LockInv /\ SnapshotInv
    BY <1>2, Zenon
      DEF LockInv, Locked, CallsApart, PassesApart, CallsFromPasses, ReleaseApart,
                       SnapshotInv, HoldsLock, Passing, Releasing
  <1>6. CapacityInv
    <2>1. ASSUME NEW p \in Pools PROVE Bytes(Charged(p)) <= Limit[p]
      <3>1. Charged(p) = {}
        <4>1. p # NoPool
          BY AdmissionAssumption
        <4> QED  BY <1>2, <4>1, ChargedElements, ChargedTypes
      <3>2. UNION {{v} \X (1..Size[v]) : v \in {}} = {}
        OBVIOUS
      <3>3. Bytes(Charged(p)) = 0
        BY <3>1, <3>2, FS_EmptySet DEF Bytes
      <3> QED  BY <3>3, ChargedTypes
    <2> QED  BY <1>2, <2>1 DEF CapacityInv
  <1>7. ReleaseInv
    BY <1>2, <1>3, Zenon DEF ReleaseInv, Closed
  <1> QED  BY <1>1, <1>4, <1>5, <1>6, <1>7 DEF IInv

(* Every step keeps the types.                                              *)
LEMMA TypeStep ==
    ASSUME IInv, ~LateResume, [Next]_vars
    PROVE  TypeOK'
  <1>0. /\ TypeOK /\ ReleaseInv
        /\ \A v \in Vols : Called(v) /\ Placed(v)
    BY DEF IInv
  <1>1. ASSUME NEW v \in Vols,
               \/ CreateVolume(v) \/ LockPool(v) \/ ListVolumes(v) \/ PoolFits(v)
               \/ BeginCreate(v) \/ CreateIntent(v) \/ RecordCreationIntent(v)
        PROVE TypeOK'
    <2>1. /\ csi[v].step \notin {"resume", "create late", "record late"}
          /\ csi[v].step # "idle" => csi[v].pool \in Pools
      BY <1>0, Zenon DEF Called
    <2>2. CASE CreateVolume(v) \/ ListVolumes(v) \/ PoolFits(v)
      BY <1>0, <2>2, CreateVolumeEffect, ListVolumesEffect, PoolFitsEffect, Zenon
    <2>3. CASE LockPool(v)
      BY <1>0, <2>1, <2>3, LockPoolEffect, Zenon DEF LockPool
    <2>4. CASE BeginCreate(v) \/ CreateIntent(v) \/ RecordCreationIntent(v)
      BY <1>0, <2>1, <2>4, BeginCreateEffect, CreateIntentEffect,
           RecordCreationIntentEffect, Zenon
    <2> QED  BY <1>1, <2>2, <2>3, <2>4
  <1>2. ASSUME NEW v \in Vols,
               \/ CreateCopy(v) \/ CompleteCreate(v) \/ FenceVolume(v) \/ PurgeCopy(v)
               \/ RemoveVolume(v)
        PROVE TypeOK'
    <2>1. vol[v].phase # "none" => vol[v].pool \in Pools
      BY <1>0, Zenon DEF TypeOK, VolumeObjects, Placed
    <2>2. CASE CreateCopy(v) \/ PurgeCopy(v)
      BY <1>0, <2>1, <2>2, CreateCopyEffect, PurgeCopyEffect, Zenon
        DEF CreateCopy, PurgeCopy
    <2> QED
      BY <1>0, <1>2, <2>2, CompleteCreateEffect, FenceVolumeEffect, RemoveVolumeEffect,
           Zenon
  <1>3. ASSUME NEW v \in Vols,
               \/ PlanMove(v) \/ GrantPreparation(v) \/ GrantListVolumes(v) \/ PassFails(v)
               \/ ConvertPreparation(v) \/ RecoverSource(v) \/ SettleRecovery(v)
               \/ ReleasePreparation(v) \/ ReleaseClaim(v) \/ SettleMove(v)
        PROVE TypeOK'
    <2>1. CASE PlanMove(v) \/ GrantPreparation(v) \/ GrantListVolumes(v) \/ PassFails(v)
      BY <1>0, <2>1, PlanMoveEffect, GrantPreparationEffect, GrantListVolumesEffect,
           PassFailsEffect, Zenon
    <2>2. CASE ConvertPreparation(v) \/ RecoverSource(v) \/ SettleRecovery(v)
      BY <1>0, <2>2, ConvertPreparationEffect, RecoverSourceEffect, SettleRecoveryEffect,
           Zenon
    <2>3. CASE ReleasePreparation(v) \/ ReleaseClaim(v) \/ SettleMove(v)
      BY <1>0, <2>3, ReleasePreparationEffect, ReleaseClaimEffect, SettleMoveEffect, Zenon
    <2> QED  BY <1>3, <2>1, <2>2, <2>3
  <1>4. ASSUME NEW v \in Vols,
               \/ CopyToDestination(v) \/ CommitOwner(v) \/ RetireSource(v) \/ RollbackCopy(v)
               \/ GrantListMoves(v)
        PROVE TypeOK'
    <2>1. /\ mv[v].stage \in HoldStages => mv[v].src \in Pools /\ mv[v].dst \in Pools
          /\ mob[v].step # "idle" => mob[v].pool \in Pools
      BY <1>0, Zenon DEF Placed
    <2>2. CASE CopyToDestination(v) \/ CommitOwner(v)
      BY <1>0, <2>1, <2>2, CopyToDestinationEffect, CommitOwnerEffect
         DEF CopyToDestination, CommitOwner, HoldStages
    <2>3. CASE RetireSource(v) \/ RollbackCopy(v)
      BY <1>0, <2>1, <2>3, RetireSourceEffect, Zenon
        DEF RetireSource, RollbackCopy, HoldStages
    <2>4. CASE GrantListMoves(v)
      BY <1>0, <2>1, <2>4, GrantListMovesEffect, Zenon DEF GrantListMoves
    <2> QED  BY <1>4, <2>2, <2>3, <2>4
  <1>5. ASSUME NEW p \in Pools,
               \/ DeletePool(p) \/ RequestRetirement(p) \/ ListPoolRegistrations(p)
               \/ ReportInventory(p) \/ ObservePool(p) \/ RecordIdentityRelease(p)
               \/ SetPoolStatus(p)
        PROVE TypeOK'
    BY <1>0, <1>5, OperatorEffect, ListPoolRegistrationsEffect, ReportInventoryEffect,
       ObservePoolEffect, RecordIdentityReleaseEffect, SetPoolStatusEffect, Zenon
  <1>6. CASE LockForRelease \/ CheckVolumes \/ ReleaseStep
    <2>1. ctl.pool \in Pools
      BY <1>0, <1>6 DEF ReleaseInv, LockForRelease, CheckVolumes, ReleaseStep
    <2> QED  BY <1>0, <1>6, <2>1, LockForReleaseEffect, CheckVolumesEffect,
         ReleaseStepEffect, Zenon
  <1>7. CASE (\E v \in Vols : CallFails(v)) \/ Restart
    BY <1>0, <1>7, CallFailsEffect, RestartEffect, Zenon
  <1>8. CASE UNCHANGED vars
    BY <1>0, <1>8 DEF TypeOK, vars
  <1> QED
    BY <1>1, <1>2, <1>3, <1>4, <1>5, <1>6, <1>7, <1>8, AdmissionAssumption
       DEF Next, Creation, Existence, Movement, Lifecycle

(* Every step keeps the invariant when resumptions hold the Pool lock.      *)
LEMMA InductiveStep == IInv /\ ~LateResume /\ [Next]_vars => IInv'
  BY TypeStep, CalledStep, PlacedStep, CopiedStep, LockStep, SnapshotStep, CapacityStep,
     ReleaseInvStep DEF IInv

(* The invariant holds throughout when resumptions hold the Pool lock.      *)
LEMMA Invariance == ~LateResume => (Spec => []IInv)
  <1> SUFFICES ASSUME ~LateResume PROVE Spec => []IInv
    OBVIOUS
  <1>1. IInv /\ [Next]_vars => IInv'
    BY InductiveStep
  <1> QED  BY <1>1, InitIInv, PTL DEF Spec

-----------------------------------------------------------------------------
(* The theorems.                                                            *)

(* Every variable keeps its type: no operation writes a record of the       *)
(* wrong shape.                                                             *)
THEOREM TypeCorrect == ~LateResume => (Spec => []TypeOK)
  <1>1. IInv => TypeOK
    BY DEF IInv
  <1> QED  BY <1>1, Invariance, PTL

(* poolFits and grantPreparation never admit more than the limit of a Pool, *)
(* however creations, preparations and owner changes overlap: a volume is   *)
(* counted on a Pool once, by its owner or by its hold, and a reader under  *)
(* the lock of a Pool sums at least what the ledger holds when it writes.   *)
THEOREM LimitKept == ~LateResume => (Spec => []ReservedWithinLimit)
  <1>1. IInv => ReservedWithinLimit
    <2> SUFFICES ASSUME IInv, NEW p \in Pools
                 PROVE  ReservedBytesForPool(Volumes, p) <= Limit[p]
      BY DEF ReservedWithinLimit
    <2>1. Owned(Volumes, p) \cap Held(Volumes, p) = {}
      <3> SUFFICES ASSUME NEW v \in Vols, vol[v].pool = p, HeldPool(Volumes, v) = p PROVE FALSE
        BY DEF Owned, Held, Volumes
      <3>1. Placed(v) /\ p # NoPool
        BY AdmissionAssumption DEF IInv
      <3> QED  BY <3>1, HeldPools DEF Placed, HoldStages
    <2>2. Owned(Volumes, p) \in SUBSET Vols /\ Held(Volumes, p) \in SUBSET Vols
      BY DEF Owned, Held
    <2>3. Bytes(Charged(p)) = Bytes(Owned(Volumes, p)) + Bytes(Held(Volumes, p))
      BY <2>1, <2>2, BytesUnion DEF Charged
    <2>4. Bytes(Charged(p)) <= Limit[p]
      BY DEF IInv, CapacityInv
    <2> QED  BY <2>3, <2>4 DEF ReservedBytesForPool
  <1> QED  BY <1>1, Invariance, PTL

(* Every copy on a disk is counted there, by its volume or by the hold of   *)
(* its Move: settleRecovery gives a hold back after the copy is gone.       *)
THEOREM CopiesReserved == ~LateResume => (Spec => []EveryCopyIsReserved)
  <1>1. IInv => EveryCopyIsReserved
    BY ZenonT(40) DEF IInv, TypeOK, Copied, EveryCopyIsReserved
  <1> QED  BY <1>1, Invariance, PTL

(* A Pool that a volume or a Move refers to keeps its registration and its  *)
(* identity: the controller's check under the lock of the Pool, and the     *)
(* Ready check of every call that chooses it, exclude each other.           *)
THEOREM ReferencedPoolKept == ~LateResume => (Spec => []ReferencedPoolStays)
  <1>1. IInv => ReferencedPoolStays
    BY DEF IInv, ReleaseInv, Closed, References, ReferencedPoolStays
  <1> QED  BY <1>1, Invariance, PTL
=============================================================================
