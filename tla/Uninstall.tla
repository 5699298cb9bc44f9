------------------------------ MODULE Uninstall ------------------------------
(***************************************************************************)
(* The quiesced uninstall of the driver.  A guard (a Helm or Argo CD hook) *)
(* publishes an attempt in the permit ConfigMap; the controller's gate     *)
(* stops new creations and acknowledges the attempt once none is inside;   *)
(* the guard inspects the cluster, releases the Pools' protection, removes *)
(* the validating webhook and grants the deletion.  The permit lives for a *)
(* fixed time, and the controller may be restarted at any moment.          *)
(*                                                                         *)
(* The writes of the guard and of the Pool controller to a Pool pass the   *)
(* validating webhook, hence need a certificate its bundle trusts.  One    *)
(* Pool and one volume stand for all.  Processes read one clock.           *)
(***************************************************************************)
EXTENDS Certificates

CONSTANTS
    Calls,       \* CreateVolume calls
    Guards,      \* uninstall guards; a replaced hook may still be running
    MaxAttempts  \* bound: quiesce attempts

ASSUME UninstallAssumption == MaxAttempts \in Nat

VARIABLES
    permit,    \* the ConfigMap: [state, attempt, acked]
    attempts,  \* attempts so far, which names the next one
    inside,    \* calls that entered the gate and have not left
    volume,    \* does a volume exist ?
    protected, \* has the Pool its protection finalizer ?
    ensuring,  \* has the Pool controller decided to add it ?
    guard      \* [step, attempt, report] of each guard

lifecycleVars == <<permit, attempts, inside, volume, protected, ensuring, guard>>
vars == <<gate, certificateVars, lifecycleVars>>

NoPermit == [state |-> "none", attempt |-> 0, acked |-> FALSE]
IdleGuard == [step |-> "idle", attempt |-> 0, report |-> "stale"]
Closed == [up |-> FALSE, quiescing |-> FALSE, sync |-> "read", attempt |-> 0]

Init ==
    /\ CertificatesInit
    /\ gate = [Closed EXCEPT !.up = TRUE]
    /\ permit = NoPermit /\ attempts = 0 /\ inside = {} /\ volume = FALSE
    /\ protected = TRUE /\ ensuring = FALSE
    /\ guard = [g \in Guards |-> IdleGuard]

-----------------------------------------------------------------------------
(* The permit, as every reader sees it: an expired one does not exist.      *)

Quiescing == permit.state \in {"quiescing", "granted"}
Granted == permit.state = "granted" /\ permit.acked
Awaits(attempt) == permit.state = "quiescing" /\ permit.attempt = attempt

Expire ==
    /\ Quiescing /\ permit' = NoPermit
    /\ UNCHANGED <<gate, certificateVars, attempts, inside, volume, protected, ensuring, guard>>

-----------------------------------------------------------------------------
(* The gate of the controller, and the calls it lets in.                    *)

(* sync reads the permit (a tick that finds an open gate and no permit will *)
(* change nothing, and is left out) ...                                     *)
ReadQuiescing ==
    /\ gate.sync = "read" /\ (Quiescing \/ gate.quiescing \/ ~gate.up)
    /\ gate' = [gate EXCEPT !.sync = IF Quiescing THEN "close" ELSE "open",
                            !.attempt = IF Quiescing THEN permit.attempt ELSE 0]
    /\ UNCHANGED <<certificateVars, lifecycleVars>>

(* Mutant: every attempt that is read is acknowledged.                      *)
SetQuiescingReady ==
    /\ gate.sync \in {"open", "close"}
    /\ gate' = [gate EXCEPT !.up = TRUE, !.quiescing = (gate.sync = "close"),
                            !.sync = IF gate.sync = "close" THEN "acknowledge" ELSE "read"]
    /\ UNCHANGED <<certificateVars, lifecycleVars>>

(* ... sets the flag and counts the calls under the mutex ...               *)
SetQuiescing ==
    /\ gate.sync \in {"open", "close"}
    /\ gate' = [gate EXCEPT !.up = TRUE, !.quiescing = (gate.sync = "close"),
                            !.sync = IF @ = "close" /\ inside = {} THEN "acknowledge" ELSE "read"]
    /\ UNCHANGED <<certificateVars, lifecycleVars>>

(* ... and acknowledges the attempt it has read, if it still waits.         *)
Acknowledge ==
    /\ gate.sync = "acknowledge"
    /\ permit' = IF Awaits(gate.attempt) THEN [permit EXCEPT !.acked = TRUE] ELSE permit
    /\ gate' = [gate EXCEPT !.sync = "read", !.attempt = 0]
    /\ UNCHANGED <<certificateVars, attempts, inside, volume, protected, ensuring, guard>>

Enter(c) ==
    /\ gate.up /\ ~gate.quiescing /\ c \notin inside
    /\ inside' = inside \cup {c}
    /\ UNCHANGED <<gate, certificateVars, permit, attempts, volume, protected, ensuring, guard>>

CreateVolume(c) ==
    /\ c \in inside /\ protected /\ volume' = TRUE
    /\ UNCHANGED <<gate, certificateVars, permit, attempts, inside, protected, ensuring, guard>>

Leave(c) ==
    /\ c \in inside /\ inside' = inside \ {c}
    /\ UNCHANGED <<gate, certificateVars, permit, attempts, volume, protected, ensuring, guard>>

(* Deletion is not gated.                                                   *)
DeleteVolume ==
    /\ volume /\ volume' = FALSE
    /\ UNCHANGED <<gate, certificateVars, permit, attempts, inside, protected, ensuring, guard>>

(* The process is replaced.  Its gate is bootstrapped before anything else. *)
Restart ==
    /\ Fault /\ gate' = Closed /\ inside' = {}
    /\ active' = NoCA /\ mgr' = IdleManager /\ ensuring' = FALSE
    /\ UNCHANGED <<secret, issued, aged, mutating, validating, permit, attempts, volume,
                   protected, guard>>

-----------------------------------------------------------------------------
(* The Pool's protection.                                                   *)

(* A write to a Pool passes the validating webhook, if there is one.        *)
PoolWritable == validating = {} \/ (gate.up /\ active \in validating)

(* A pass of the Pool controller lists the Pools and reads the permit: no   *)
(* protection is added during an uninstall ...                              *)
ListPoolRegistrations ==
    /\ gate.up /\ ~ensuring /\ ~protected /\ ~Quiescing /\ ensuring' = TRUE
    /\ UNCHANGED <<gate, certificateVars, permit, attempts, inside, volume, protected, guard>>

(* ... that has begun by then.  The write may fail, and come late.          *)
EnsurePoolFinalizer ==
    /\ ensuring /\ ensuring' = FALSE /\ protected' = (protected \/ PoolWritable)
    /\ UNCHANGED <<gate, certificateVars, permit, attempts, inside, volume, guard>>

PoolPass == ListPoolRegistrations \/ EnsurePoolFinalizer

(* The Node reports the inventory of the Pool.                              *)
NodeReport ==
    /\ \E g \in Guards : guard[g].step = "check" /\ guard[g].report = "stale"
    /\ guard' = [g \in Guards |-> IF guard[g].step = "check"
                    THEN [guard[g] EXCEPT !.report = IF volume THEN "full" ELSE "empty"]
                    ELSE guard[g]]
    /\ UNCHANGED <<gate, certificateVars, permit, attempts, inside, volume, protected, ensuring>>

-----------------------------------------------------------------------------
(* The guard: one attempt of run.                                           *)

GuardAt(g, step) == guard[g].step = step

(* A report belongs to the check it was made for.                           *)
GuardTo(g, step) ==
    guard' = [guard EXCEPT ![g] = [@ EXCEPT !.step = step, !.report = "stale"]]

(* A new attempt replaces whatever the ConfigMap holds.                     *)
BeginQuiesce(g) ==
    /\ GuardAt(g, "idle") /\ attempts < MaxAttempts /\ attempts' = attempts + 1
    /\ permit' = [state |-> "quiescing", attempt |-> attempts', acked |-> FALSE]
    /\ guard' = [guard EXCEPT ![g] = [step |-> "wait", attempt |-> attempts',
                                      report |-> "stale"]]
    /\ UNCHANGED <<gate, certificateVars, inside, volume, protected, ensuring>>

WaitForQuiesced(g) ==
    /\ GuardAt(g, "wait") /\ (Awaits(guard[g].attempt) => permit.acked)
    /\ GuardTo(g, IF Awaits(guard[g].attempt) THEN "check" ELSE "cancel")
    /\ UNCHANGED <<gate, certificateVars, permit, attempts, inside, volume, protected, ensuring>>

(* Volumes, claims, Moves and cleanups: one volume stands for all of them.  *)
DependentsExist == volume

(* poolBlockers: a Pool blocks unless an inventory newer than the           *)
(* acknowledgement says that it is empty.                                   *)
PoolBlocks(g) == guard[g].report # "empty"

WaitingForInventory(g) == ~DependentsExist /\ guard[g].report = "stale"

(* checkAfterQuiesce waits for an inventory and for nothing else.           *)
CheckAfter(g) ==
    /\ GuardAt(g, "check") /\ ~WaitingForInventory(g)
    /\ GuardTo(g, IF DependentsExist \/ PoolBlocks(g) THEN "cancel" ELSE "release")
    /\ UNCHANGED <<gate, certificateVars, permit, attempts, inside, volume, protected, ensuring>>

ReleasePoolProtection(g) ==
    /\ GuardAt(g, "release")
    /\ GuardTo(g, IF PoolWritable THEN "disable" ELSE "cancel")
    /\ protected' = (protected /\ ~PoolWritable)
    /\ UNCHANGED <<gate, certificateVars, permit, attempts, inside, volume, ensuring>>

DisableValidation(g) ==
    /\ GuardAt(g, "disable") /\ GuardTo(g, "grant") /\ validating' = {}
    /\ UNCHANGED <<gate, secret, issued, aged, active, mutating, mgr, faults, permit, attempts,
                   inside, volume, protected, ensuring>>

Grant(g) ==
    /\ GuardAt(g, "grant")
    /\ IF Awaits(guard[g].attempt) /\ permit.acked
       THEN /\ permit' = [permit EXCEPT !.state = "granted"]
            /\ guard' = [guard EXCEPT ![g] = IdleGuard]
       ELSE GuardTo(g, "cancel") /\ UNCHANGED permit
    /\ UNCHANGED <<gate, certificateVars, attempts, inside, volume, protected, ensuring>>

(* Only its own attempt, and only while it has not expired.                 *)
Cancel(g) ==
    /\ GuardAt(g, "cancel") /\ guard' = [guard EXCEPT ![g] = IdleGuard]
    /\ permit' = IF Quiescing /\ permit.attempt = guard[g].attempt THEN NoPermit ELSE permit
    /\ UNCHANGED <<gate, certificateVars, attempts, inside, volume, protected, ensuring>>

(* A timeout or an API error ends the attempt; a killed guard cancels       *)
(* nothing.                                                                 *)
GuardFails(g) ==
    /\ guard[g].step \notin {"idle", "cancel"} /\ GuardTo(g, "cancel")
    /\ UNCHANGED <<gate, certificateVars, permit, attempts, inside, volume, protected, ensuring>>

GuardDies(g) ==
    /\ ~GuardAt(g, "idle") /\ guard' = [guard EXCEPT ![g] = IdleGuard]
    /\ UNCHANGED <<gate, certificateVars, permit, attempts, inside, volume, protected, ensuring>>

-----------------------------------------------------------------------------

GateStep == ReadQuiescing \/ SetQuiescing \/ Acknowledge
GuardStep(g) ==
    \/ WaitForQuiesced(g) \/ CheckAfter(g) \/ ReleasePoolProtection(g)
    \/ DisableValidation(g) \/ Grant(g) \/ Cancel(g)

Next ==
    \/ CertificatesNext /\ UNCHANGED lifecycleVars
    \/ GateStep \/ Restart \/ Expire \/ PoolPass \/ NodeReport \/ DeleteVolume
    \/ \E c \in Calls : Enter(c) \/ CreateVolume(c) \/ Leave(c)
    \/ \E g \in Guards : \/ BeginQuiesce(g) \/ GuardStep(g) \/ GuardFails(g) \/ GuardDies(g)

Spec == Init /\ [][Next]_vars

(* The loops of the controller tick for ever, calls return, guards run on,  *)
(* and time passes.                                                         *)
Fairness ==
    /\ WF_vars(GateStep) /\ WF_vars(Expire)
    /\ WF_vars(PoolPass) /\ WF_vars(NodeReport)
    /\ \A c \in Calls : WF_vars(Leave(c))
    /\ \A g \in Guards : WF_vars(GuardStep(g))
    /\ WF_vars(ManagerStep /\ UNCHANGED lifecycleVars)

FairSpec == Spec /\ Fairness

-----------------------------------------------------------------------------
Gates ==
    [up : BOOLEAN, quiescing : BOOLEAN, sync : {"read", "open", "close", "acknowledge"},
     attempt : Nat]
Permits == [state : {"none", "quiescing", "granted"}, attempt : Nat, acked : BOOLEAN]
GuardStates ==
    [step : {"idle", "wait", "check", "release", "disable", "grant", "cancel"}, attempt : Nat,
     report : {"stale", "full", "empty"}]

(* Every variable holds what its declaration says.                          *)
TypeOK ==
    /\ CertificatesTypeOK
    /\ gate \in Gates /\ permit \in Permits /\ attempts \in Nat
    /\ inside \subseteq Calls /\ volume \in BOOLEAN
    /\ protected \in BOOLEAN /\ ensuring \in BOOLEAN
    /\ guard \in [Guards -> GuardStates]

(* While an acknowledgement is valid no creation is inside the gate and     *)
(* none can enter, whichever attempt it was given for, however often the    *)
(* guard starts over and the controller is restarted.                       *)
AcknowledgedIsQuiet ==
    permit.acked => inside = {} /\ (gate.up => gate.quiescing)

(* A granted deletion finds no volume, and no webhook that could refuse it: *)
(* what the guard has inspected and removed does not come back behind it.   *)
GrantedLeavesNothing == Granted => ~volume /\ validating = {}

(* The bound on generated CAs keeps the manager from a rotation it needs.   *)
OutOfCAs == issued = MaxCA /\ (aged \/ secret = NoCA)

(* An uninstall that is cancelled, killed or overtaken by the expiry of its *)
(* permit is undone: the Pool gets its protection and the driver its        *)
(* validating webhook back, with a bundle that trusts what is served.       *)
AbandonedUninstallIsUndone ==
    ~Quiescing ~> \/ Quiescing \/ OutOfCAs
                  \/ protected /\ active \in validating

=============================================================================
