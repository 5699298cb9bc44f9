-------------------------- MODULE AdmissionInvariant --------------------------
(***************************************************************************)
(* Why the capacity ledger and the release of a Pool registration are      *)
(* safe: the inductive invariant of module Admission.  It holds while no   *)
(* unfinished creation vanishes under a call that resumes it (LateResume). *)
(***************************************************************************)
EXTENDS Admission

HoldStages == {"held", "approved", "recovering"}

(* A call: none is on the way of a late resume, and the name that a new     *)
(* creation is for has no object and, once it is admitted, no hold.         *)
Called(v) ==
    /\ csi[v].step \notin {"resume", "create late", "record late"}
    /\ csi[v].step # "idle" => csi[v].pool \in Pools
    /\ csi[v].step \in {"lock", "volumes", "moves", "measure", "create"} =>
          vol[v].phase = "none"
    /\ csi[v].step = "moves" => ~csi[v].seen[v].active
    /\ csi[v].step \in {"measure", "create"} => mv[v].stage \notin HoldStages

(* A volume and its Move agree with each other: the source owns until the   *)
(* commit, and a released claim leaves at most a hold that is paid for.     *)
Placed(v) ==
    /\ vol[v].phase = "none" <=> vol[v].pool = NoPool
    /\ vol[v].active => vol[v].phase = "Ready" /\ mv[v].stage # "none"
    /\ vol[v].phase \in {"intent", "creating"} => mv[v].stage \notin HoldStages
    /\ mv[v].stage = "none" => mv[v] = NoMove
    /\ mv[v].stage = "planned" /\ vol[v].active => vol[v].pool = mv[v].src
    /\ mv[v].stage = "planned" => mv[v].src \in Pools
    /\ mv[v].stage \in HoldStages =>
          mv[v].src \in Pools /\ mv[v].dst \in Pools /\ mv[v].src # mv[v].dst
    /\ mv[v].stage \in {"held", "recovering"} => vol[v].active /\ vol[v].pool = mv[v].src
    /\ mv[v].stage = "approved" =>
          /\ vol[v].pool \in {mv[v].src, mv[v].dst, NoPool}
          /\ vol[v].pool = mv[v].src => vol[v].active
    /\ mob[v].step # "idle" =>
          /\ mob[v].step \in {"volumes", "moves"}
          /\ vol[v].active /\ mv[v].stage = "planned"
          /\ mob[v].pool \in Pools \ {vol[v].pool}

(* Where a copy may be.                                                     *)
Copied(v) ==
    /\ vol[v].phase \in {"none", "intent"} => \A p \in Pools : v \notin data[p]
    /\ \A p \in Pools : v \in data[p] =>
          \/ vol[v].pool = p
          \/ mv[v].stage \in {"approved", "recovering"} /\ HeldPool(Volumes, v) = p
    /\ mv[v].stage = "approved" /\ ~vol[v].active => v \notin data[mv[v].src]

(* At most one call, pass or release holds the lock of a Pool.              *)
Passing(v) == mob[v].step # "idle"
Releasing == ctl.step \in {"volumes", "moves"}

Locked ==
    /\ \A v \in Vols : HoldsLock(v) => lock[csi[v].pool]
    /\ \A v \in Vols : Passing(v) => lock[mob[v].pool]
    /\ Releasing => lock[ctl.pool]
CallsApart ==
    \A v, w \in Vols : HoldsLock(v) /\ HoldsLock(w) /\ csi[v].pool = csi[w].pool => v = w
PassesApart ==
    \A v, w \in Vols : Passing(v) /\ Passing(w) /\ mob[v].pool = mob[w].pool => v = w
CallsFromPasses ==
    \A v, w \in Vols : HoldsLock(v) /\ Passing(w) => csi[v].pool # mob[w].pool
ReleaseApart ==
    Releasing => \A v \in Vols : /\ HoldsLock(v) => csi[v].pool # ctl.pool
                                 /\ Passing(v) => mob[v].pool # ctl.pool

LockInv == Locked /\ CallsApart /\ PassesApart /\ CallsFromPasses /\ ReleaseApart

(* The volumes that the ledger counts on a Pool now, once each.             *)
Charged(p) == Owned(Volumes, p) \cup Held(Volumes, p)

(* What a list of Volumes, read under the lock of p, still shows.           *)
SnapshotOf(seen, p) ==
    \A v \in Vols :
        /\ vol[v].pool = p => seen[v].pool = p
        /\ /\ mv[v].stage \in {"approved", "recovering"}
           /\ mv[v].src = p /\ vol[v].pool = mv[v].dst
           => seen[v].pool \in {mv[v].src, mv[v].dst}

SnapshotInv ==
    \A v \in Vols : /\ csi[v].step = "moves" => SnapshotOf(csi[v].seen, csi[v].pool)
                    /\ mob[v].step = "moves" => SnapshotOf(mob[v].seen, mob[v].pool)

(* The limit, and the room that an admitted creation has been promised.     *)
CapacityInv ==
    /\ \A p \in Pools : Bytes(Charged(p)) <= Limit[p]
    /\ \A v \in Vols : csi[v].step \in {"measure", "create"} =>
          Bytes(Charged(csi[v].pool)) + Size[v] <= Limit[csi[v].pool]

(* A Pool whose release has been decided, by whomever it is remembered, is  *)
(* referred to by nothing, and nothing that refers to it can appear.        *)
Closed(p) ==
    \/ pool[p].phase = "gone" \/ ~pool[p].marker \/ pool[p].retired \/ pool[p].approval
    \/ node[p].approval

References(v, p) == vol[v].pool = p \/ MoveUsesPool(v, p)

ReleaseInv ==
    /\ ctl.step # "idle" => ctl.pool \in Pools /\ ~PoolReady(ctl.pool)
    /\ ctl.step = "moves" /\ ~ctl.used => \A v \in Vols : vol[v].pool # ctl.pool
    /\ \A p \in Pools : Closed(p) =>
          /\ ~PoolReady(p)
          /\ \A v \in Vols : /\ ~References(v, p)
                             /\ csi[v].step = "create" => csi[v].pool # p
                             /\ Passing(v) => mob[v].pool # p

(* The inductive invariant.                                                 *)
IInv ==
    /\ TypeOK /\ \A v \in Vols : Called(v) /\ Placed(v) /\ Copied(v)
    /\ LockInv /\ SnapshotInv /\ CapacityInv /\ ReleaseInv
=============================================================================
