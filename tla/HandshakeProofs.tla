----------------------------- MODULE HandshakeProofs -----------------------------
(***************************************************************************)
(* The two exchanges in which one process writes a request into an object  *)
(* and waits for another to answer it there: the quiescence that an        *)
(* uninstall asks the controller for, with the rotation of certificates    *)
(* beside it, for any number of calls, of guards that overlap, of          *)
(* attempts, of CAs and of faults; and the measurement that the controller *)
(* asks a Node for, for any supply of nonces and any number of edits of    *)
(* the Pool.                                                               *)
(***************************************************************************)
EXTENDS Uninstall, Measurement, TLAPS

(* The provers of a leaf that names none.                                    *)
USE SMTT(15), Z3T(15), ZenonT(30)

(* What is served, what the Secret holds and what the pass will publish or  *)
(* serve next is trusted, or will be before it is needed.                   *)
CertificatesInv ==
    /\ mutating # {}
    /\ active \in mutating \cup {NoCA} /\ secret \in mutating \cup {NoCA}
    /\ aged => active \in {NoCA, secret}
    /\ mgr.step = "publish" =>
          /\ mgr.old # NoCA /\ mgr.next # NoCA
          /\ active \in {NoCA, mgr.old} /\ secret \in {NoCA, mgr.old}
    /\ mgr.step = "publish validation" => mgr.old \in mutating /\ mgr.next \in mutating
    /\ mgr.step = "secret" => mgr.next \in mutating
    /\ mgr.step = "ensure" => mgr.next # NoCA /\ active = mgr.next /\ secret \in {NoCA, mgr.next}
    /\ mgr.step = "ensure validation" => mgr.next # NoCA

(* An acknowledgement, given or about to be, stands for a closed gate; and  *)
(* nothing that the gate has read will open it.                             *)
GateInv ==
    /\ ~gate.up => mgr.step = "idle"
    /\ gate.sync = "acknowledge" => gate.up /\ gate.quiescing /\ inside = {}
    /\ permit.acked =>
          /\ Quiescing /\ gate.sync # "open"
          /\ inside = {} /\ (gate.up => gate.quiescing)

(* Attempts are not reused; a guard whose attempt still waits has passed    *)
(* each of its stages under the acknowledgement, which kept its result.     *)
GuardInv ==
    /\ permit.attempt <= attempts
    /\ \A g \in Guards :
          /\ guard[g].attempt <= attempts
          /\ Awaits(guard[g].attempt) =>
                /\ guard[g].step \in {"check", "release", "disable", "grant"} => permit.acked
                /\ guard[g].step \in {"release", "disable", "grant"} => ~volume
                /\ guard[g].step = "grant" => validating = {}

(* The inductive invariant.                                                 *)
IInv == TypeOK /\ CertificatesInv /\ GateInv /\ GuardInv /\ GrantedLeavesNothing

-----------------------------------------------------------------------------
(* What an edit of the pass writes.                                         *)
LEMMA Gotos ==
    ASSUME CertificatesTypeOK, NEW step, Goto(step),
           step \in {"publish validation", "secret", "ensure", "ensure validation"}
    PROVE  /\ mgr' \in Passes /\ mgr'.step = step
           /\ mgr'.seen = mgr.seen /\ mgr'.old = mgr.old /\ mgr'.next = mgr.next
  BY Zenon DEF Goto, CertificatesTypeOK, Passes

LEMMA IdleIsPass == IdleManager \in Passes /\ IdleManager.step = "idle"
  BY CertificatesAssumption DEF IdleManager, Passes, NoCA

(* A rotation starts from the CA that is in use, if one is: the trust that  *)
(* it extends is the one the API server relies on.                          *)
LEMMA BaseIsInUse ==
    ASSUME CertificatesTypeOK, CertificatesInv, secret = NoCA \/ aged,
           NEW old \in TransitionBase
    PROVE  /\ old \in 1..MaxCA
           /\ active \in {NoCA, old} /\ secret \in {NoCA, old}
  <1>1. CASE secret # NoCA
    <2>1. old = secret /\ aged
      BY <1>1 DEF TransitionBase
    <2>2. \A n \in 0..MaxCA : n # 0 => n \in 1..MaxCA
      BY CertificatesAssumption
    <2>. QED
      BY <1>1, <2>1, <2>2, Zenon DEF CertificatesInv, CertificatesTypeOK, NoCA
  <1>2. CASE secret = NoCA /\ active \in Trusted
    <2>1. old = active
      BY <1>2 DEF TransitionBase
    <2>. QED
      BY <1>2, <2>1 DEF Trusted, CertificatesTypeOK
  <1>3. CASE secret = NoCA /\ active \notin Trusted
    <2>1. active = NoCA
      BY <1>3, Zenon DEF Trusted, CertificatesInv
    <2>2. old \in Trusted
      BY <1>3, Zenon DEF TransitionBase, Trusted, CertificatesInv
    <2>. QED
      BY <1>3, <2>1, <2>2 DEF Trusted, CertificatesTypeOK
  <1>. QED
    BY <1>1, <1>2, <1>3

(* The number of a new CA.                                                  *)
LEMMA NewCA ==
    ASSUME CertificatesTypeOK, issued < MaxCA
    PROVE  issued + 1 \in 1..MaxCA
  BY CertificatesAssumption DEF CertificatesTypeOK

-----------------------------------------------------------------------------
(* The pass of the certificate manager, call by call.                       *)
LEMMA ReadMaterialInv ==
    ASSUME CertificatesTypeOK, CertificatesInv, ReadMaterial
    PROVE  CertificatesTypeOK' /\ CertificatesInv'
  <1>. DEFINE Same == UNCHANGED <<secret, aged, active, mutating, validating, faults>>
  <1>0. Same
    BY DEF ReadMaterial, RotateCA, GenerateMaterial
  <1>1. CASE secret = NoCA \/ aged
    <2>1. PICK old \in TransitionBase :
             mgr' = [step |-> IF old = NoCA THEN "secret" ELSE "publish",
                     seen |-> secret, old |-> old, next |-> issued']
      BY <1>1 DEF ReadMaterial, RotateCA, GenerateMaterial
    <2>2. issued' \in 1..MaxCA
      BY <1>1, NewCA DEF ReadMaterial, RotateCA, GenerateMaterial
    <2>3. old \in 1..MaxCA /\ active \in {NoCA, old} /\ secret \in {NoCA, old}
      BY <1>1, BaseIsInUse
    <2>4. old # NoCA /\ issued' # NoCA
      BY <2>2, <2>3 DEF NoCA
    <2>5. /\ mgr'.step = "publish" /\ mgr'.old = old /\ mgr'.next = issued'
      BY <2>1, <2>4
    <2>6. mgr' \in Passes
      <3>1. \A n \in 1..MaxCA : n \in 0..MaxCA
        BY CertificatesAssumption
      <3>. QED
        BY <2>1, <2>2, <2>3, <3>1, Zenon DEF Passes, CertificatesTypeOK
    <2>7. CertificatesTypeOK'
      BY <1>0, <2>2, <2>6 DEF CertificatesTypeOK
    <2>. QED
      BY <1>0, <2>3, <2>4, <2>5, <2>7, Zenon DEF CertificatesInv
  <1>2. CASE secret # NoCA /\ ~aged
    <2>1. /\ mgr' = [step |-> "secret", seen |-> secret, old |-> NoCA, next |-> secret]
          /\ issued' = issued
      BY <1>2 DEF ReadMaterial, RotateCA, GenerateMaterial
    <2>2. mgr' \in Passes
      <3>1. NoCA \in 0..MaxCA /\ secret \in 0..MaxCA
        BY CertificatesAssumption DEF CertificatesTypeOK, NoCA
      <3>. QED
        BY <2>1, <3>1 DEF Passes
    <2>3. mgr'.step = "secret" /\ mgr'.next = secret
      BY <2>1
    <2>4. CertificatesTypeOK'
      BY <1>0, <2>1, <2>2 DEF CertificatesTypeOK
    <2>5. secret \in mutating
      BY <1>2, Zenon DEF CertificatesInv
    <2>. QED
      BY <1>0, <2>3, <2>4, <2>5, Zenon DEF CertificatesInv
  <1>. QED
    BY <1>1, <1>2 DEF CertificatesTypeOK

LEMMA PublishInv ==
    ASSUME CertificatesTypeOK, CertificatesInv,
           PublishTransition \/ PublishValidationTransition
    PROVE  CertificatesTypeOK' /\ CertificatesInv'
  <1>0. mgr.old \in 0..MaxCA /\ mgr.next \in 0..MaxCA
    BY Zenon DEF CertificatesTypeOK, Passes
  <1>00. \A n \in 0..MaxCA : n # 0 => n \in 1..MaxCA
    BY CertificatesAssumption
  <1>1. CASE PublishTransition
    <2>1. /\ mgr' \in Passes /\ mgr'.step = "publish validation"
          /\ mgr'.old = mgr.old /\ mgr'.next = mgr.next
      BY <1>1, Gotos, Zenon DEF PublishTransition, TransitionBundle
    <2>2. mutating' = {mgr.old, mgr.next} /\ mutating' \subseteq 1..MaxCA
      BY <1>0, <1>00, <1>1, Zenon
        DEF PublishTransition, TransitionBundle, CertificatesInv, NoCA
    <2>3. CertificatesTypeOK'
      BY <1>1, <2>1, <2>2, Zenon DEF PublishTransition, TransitionBundle, CertificatesTypeOK
    <2>. QED
      BY <1>1, <2>1, <2>2, <2>3, Zenon
        DEF PublishTransition, TransitionBundle, CertificatesInv
  <1>2. CASE PublishValidationTransition
    <2>1. /\ mgr' \in Passes /\ mgr'.step = "secret" /\ mgr'.next = mgr.next
      BY <1>2, Gotos, Zenon DEF PublishValidationTransition
    <2>2. validating' \subseteq 1..MaxCA
      BY <1>2, Zenon
        DEF PublishValidationTransition, TransitionBundle, RunValidation, CertificatesInv,
         CertificatesTypeOK
    <2>3. CertificatesTypeOK'
      BY <1>2, <2>1, <2>2, Zenon DEF PublishValidationTransition, CertificatesTypeOK
    <2>. QED
      BY <1>2, <2>1, <2>3, Zenon DEF PublishValidationTransition, CertificatesInv
  <1>. QED
    BY <1>1, <1>2

LEMMA EnsureSecretInv ==
    ASSUME CertificatesTypeOK, CertificatesInv, EnsureSecret
    PROVE  CertificatesTypeOK' /\ CertificatesInv'
  <1>0. /\ mgr.next \in mutating /\ mgr.next \in 0..MaxCA /\ mgr.next # NoCA
        /\ UNCHANGED <<issued, mutating, validating>>
    <2>1. mgr.next \in mutating
      BY DEF EnsureSecret, CertificatesInv
    <2>2. mgr.next \in 1..MaxCA
      BY <2>1, Zenon DEF CertificatesTypeOK
    <2>3. \A n \in 1..MaxCA : n \in 0..MaxCA /\ n # 0
      BY CertificatesAssumption
    <2>. QED
      BY <2>1, <2>2, <2>3 DEF EnsureSecret, NoCA
  <1>1. aged' = (aged /\ mgr.next = secret) /\ aged' \in BOOLEAN
    BY DEF EnsureSecret
  <1>2. faults' \in Nat
    BY DEF EnsureSecret, Fault, CertificatesTypeOK
  <1>3. CASE secret = mgr.seen /\ active' = mgr.next /\ Goto("ensure")
    <2>1. secret' = mgr.next
      BY <1>3 DEF EnsureSecret
    <2>2. mgr' \in Passes /\ mgr'.step = "ensure" /\ mgr'.next = mgr.next
      BY <1>3, Gotos, Zenon
    <2>3. CertificatesTypeOK'
      BY <1>0, <1>1, <1>2, <1>3, <2>1, <2>2 DEF CertificatesTypeOK
    <2>. QED
      BY <1>0, <1>3, <2>1, <2>2, <2>3, Zenon DEF CertificatesInv
  <1>4. CASE secret = mgr.seen /\ active' = active /\ mgr' = IdleManager
    <2>1. secret' = mgr.next
      BY <1>4 DEF EnsureSecret
    <2>2. CertificatesTypeOK'
      BY <1>0, <1>1, <1>2, <1>4, <2>1, IdleIsPass DEF CertificatesTypeOK
    <2>3. mgr'.step = "idle"
      BY <1>4, IdleIsPass
    <2>. QED
      BY <1>0, <1>1, <1>4, <2>1, <2>2, <2>3, Zenon DEF CertificatesInv
  <1>5. CASE secret # mgr.seen /\ active' = active /\ mgr' = IdleManager
    <2>1. secret' = secret
      BY <1>5 DEF EnsureSecret
    <2>2. CertificatesTypeOK'
      BY <1>0, <1>1, <1>2, <1>5, <2>1, IdleIsPass DEF CertificatesTypeOK
    <2>3. mgr'.step = "idle"
      BY <1>5, IdleIsPass
    <2>. QED
      BY <1>0, <1>1, <1>5, <2>1, <2>2, <2>3, Zenon DEF CertificatesInv
  <1>. QED
    BY <1>3, <1>4, <1>5 DEF EnsureSecret

LEMMA EnsureInv ==
    ASSUME CertificatesTypeOK, CertificatesInv, EnsureWebhook \/ EnsureValidation
    PROVE  CertificatesTypeOK' /\ CertificatesInv'
  <1>0. mgr.next \in 0..MaxCA
    BY Zenon DEF CertificatesTypeOK, Passes
  <1>00. \A n \in 0..MaxCA : n # 0 => n \in 1..MaxCA
    BY CertificatesAssumption
  <1>1. CASE EnsureWebhook
    <2>1. mgr' \in Passes /\ mgr'.step = "ensure validation" /\ mgr'.next = mgr.next
      BY <1>1, Gotos, Zenon DEF EnsureWebhook
    <2>2. mutating' = {mgr.next} /\ mutating' \subseteq 1..MaxCA
      BY <1>0, <1>00, <1>1, Zenon DEF EnsureWebhook, CertificatesInv, NoCA
    <2>3. CertificatesTypeOK'
      BY <1>1, <2>1, <2>2, Zenon DEF EnsureWebhook, CertificatesTypeOK
    <2>. QED
      BY <1>1, <2>1, <2>2, <2>3, Zenon DEF EnsureWebhook, CertificatesInv
  <1>2. CASE EnsureValidation
    <2>1. mgr' \in Passes /\ mgr'.step = "idle"
      BY <1>2, IdleIsPass, Zenon DEF EnsureValidation
    <2>2. validating' \subseteq 1..MaxCA
      BY <1>0, <1>00, <1>2, Zenon
         DEF EnsureValidation, RunValidation, CertificatesInv, CertificatesTypeOK, NoCA
    <2>3. CertificatesTypeOK'
      BY <1>2, <2>1, <2>2, Zenon DEF EnsureValidation, CertificatesTypeOK
    <2>. QED
      BY <1>2, <2>1, <2>3, Zenon DEF EnsureValidation, CertificatesInv
  <1>. QED
    BY <1>1, <1>2

(* Failures, time and operators.                                            *)
LEMMA DisturbanceInv ==
    ASSUME CertificatesTypeOK, CertificatesInv, ReconcileFails \/ Age \/ LoseSecret
    PROVE  CertificatesTypeOK' /\ CertificatesInv'
  <1>1. CASE ReconcileFails
    <2>1. mgr' \in Passes /\ mgr'.step = "idle" /\ faults' \in Nat
      BY <1>1, IdleIsPass DEF ReconcileFails, Fault, CertificatesTypeOK
    <2>. QED
      BY <1>1, <2>1, Zenon DEF ReconcileFails, CertificatesTypeOK, CertificatesInv
  <1>2. CASE Age
    BY <1>2, Zenon DEF Age, CertificatesTypeOK, CertificatesInv
  <1>3. CASE LoseSecret
    <2>1. NoCA \in 0..MaxCA
      BY CertificatesAssumption DEF NoCA
    <2>2. CertificatesTypeOK'
      BY <1>3, <2>1, Zenon DEF LoseSecret, CertificatesTypeOK
    <2>. QED
      BY <1>3, <2>2, Zenon DEF LoseSecret, CertificatesInv
  <1>. QED
    BY <1>1, <1>2, <1>3

(* The controller is replaced.                                              *)
LEMMA RestartInv ==
    ASSUME CertificatesTypeOK, CertificatesInv, Restart
    PROVE  CertificatesTypeOK' /\ CertificatesInv'
  <1>1. /\ mgr' \in Passes /\ mgr'.step = "idle" /\ faults' \in Nat
        /\ active' = NoCA /\ NoCA \in 0..MaxCA
    BY IdleIsPass, CertificatesAssumption DEF Restart, Fault, CertificatesTypeOK, NoCA
  <1>. QED
    BY <1>1, Zenon DEF Restart, CertificatesTypeOK, CertificatesInv

(* What the other actors do to the certificates: the guard removes the      *)
(* validating configuration, and nothing else.                              *)
LEMMA OtherInv ==
    ASSUME CertificatesTypeOK, CertificatesInv,
           UNCHANGED <<secret, issued, aged, active, mutating, mgr, faults>>,
           validating' \in {validating, {}}
    PROVE  CertificatesTypeOK' /\ CertificatesInv'
  BY Zenon DEF CertificatesTypeOK, CertificatesInv

(* The inductive step for the certificates.                                 *)
LEMMA CertificatesStep ==
    ASSUME CertificatesTypeOK, CertificatesInv, [Next]_vars
    PROVE  CertificatesTypeOK' /\ CertificatesInv'
  <1>1. CASE CertificatesNext
    BY <1>1, ReadMaterialInv, PublishInv, EnsureSecretInv, EnsureInv, DisturbanceInv
       DEF CertificatesNext, ManagerStep
  <1>2. CASE Restart
    BY <1>2, RestartInv
  <1>3. CASE UNCHANGED vars
    BY <1>3, OtherInv DEF vars, certificateVars
  <1>4. CASE GateStep \/ Expire \/ PoolPass \/ NodeReport \/ DeleteVolume
    BY <1>4, OtherInv DEF GateStep, ReadQuiescing, SetQuiescing, Acknowledge, Expire,
       PoolPass, ListPoolRegistrations, EnsurePoolFinalizer, NodeReport, DeleteVolume,
       certificateVars
  <1>5. ASSUME NEW c \in Calls, Enter(c) \/ CreateVolume(c) \/ Leave(c)
        PROVE  CertificatesTypeOK' /\ CertificatesInv'
    BY <1>5, OtherInv DEF Enter, CreateVolume, Leave, certificateVars
  <1>6. ASSUME NEW g \in Guards,
               BeginQuiesce(g) \/ GuardStep(g) \/ GuardFails(g) \/ GuardDies(g)
        PROVE  CertificatesTypeOK' /\ CertificatesInv'
    BY <1>6, OtherInv DEF BeginQuiesce, GuardStep, GuardFails, GuardDies, WaitForQuiesced,
       CheckAfter, ReleasePoolProtection, DisableValidation, Grant, Cancel, certificateVars
  <1>. QED
    BY <1>1, <1>2, <1>3, <1>4, <1>5, <1>6 DEF Next

-----------------------------------------------------------------------------
(* What the edits of the gate and of the permit write.                      *)
LEMMA Reading ==
    ASSUME TypeOK, ReadQuiescing
    PROVE  /\ gate' \in Gates /\ gate'.up = gate.up /\ gate'.quiescing = gate.quiescing
           /\ gate'.sync \in {"open", "close"} /\ (Quiescing => gate'.sync = "close")
  <1>1. permit.attempt \in Nat
    BY DEF TypeOK, Permits
  <1>. QED
    BY <1>1, Zenon DEF ReadQuiescing, TypeOK, Gates

LEMMA Setting ==
    ASSUME TypeOK, SetQuiescing
    PROVE  /\ gate' \in Gates /\ gate'.up
           /\ gate.sync = "close" => gate'.quiescing
           /\ gate'.sync \in {"acknowledge", "read"}
           /\ gate'.sync = "acknowledge" => gate.sync = "close" /\ inside = {}
  BY Zenon DEF SetQuiescing, TypeOK, Gates

LEMMA Acknowledging ==
    ASSUME TypeOK, Acknowledge
    PROVE  /\ gate' \in Gates /\ gate'.up = gate.up /\ gate'.quiescing = gate.quiescing
           /\ gate'.sync = "read"
           /\ permit' \in Permits
           /\ permit'.state = permit.state /\ permit'.attempt = permit.attempt
           /\ permit'.acked => permit.acked \/ permit.state = "quiescing"
           /\ permit.acked => permit'.acked
  <1>1. /\ gate' \in Gates /\ gate'.up = gate.up /\ gate'.quiescing = gate.quiescing
        /\ gate'.sync = "read"
    BY Zenon DEF Acknowledge, TypeOK, Gates
  <1>2. CASE Awaits(gate.attempt)
    BY <1>1, <1>2, Zenon DEF Acknowledge, Awaits, TypeOK, Permits
  <1>3. CASE ~Awaits(gate.attempt)
    BY <1>1, <1>3 DEF Acknowledge, TypeOK
  <1>. QED
    BY <1>2, <1>3

LEMMA NoPermitIsPermit ==
    /\ NoPermit \in Permits /\ NoPermit.state = "none" /\ NoPermit.attempt = 0
    /\ ~NoPermit.acked
  BY DEF NoPermit, Permits

LEMMA ClosedIsGate ==
    /\ Closed \in Gates /\ ~Closed.up /\ Closed.sync = "read"
  BY DEF Closed, Gates

LEMMA IdleIsGuard ==
    /\ IdleGuard \in GuardStates /\ IdleGuard.step = "idle" /\ IdleGuard.attempt = 0
  BY DEF IdleGuard, GuardStates

LEMMA GuardTos ==
    ASSUME TypeOK, NEW g \in Guards, NEW step, GuardTo(g, step),
           step \in {"check", "release", "disable", "grant", "cancel"}
    PROVE  /\ guard' \in [Guards -> GuardStates]
           /\ guard'[g].step = step /\ guard'[g].attempt = guard[g].attempt
           /\ \A h \in Guards \ {g} : guard'[h] = guard[h]
  BY ZenonT(30) DEF GuardTo, TypeOK, GuardStates

-----------------------------------------------------------------------------
(* While an acknowledgement is valid, no volume appears and the validating  *)
(* configuration does not come back; this is all the guards rely on.        *)
LEMMA QuietKeepsGuards ==
    ASSUME GuardInv, GrantedLeavesNothing, UNCHANGED <<permit, attempts, guard>>,
           permit.acked => (volume' => volume) /\ validating' \in {validating, {}}
    PROVE  GuardInv' /\ GrantedLeavesNothing'
  BY DEF GuardInv, GrantedLeavesNothing, Granted, Awaits

(* The certificate manager respects the gate.                               *)
LEMMA CertificatesKeepLifecycle ==
    ASSUME IInv, CertificatesNext, UNCHANGED lifecycleVars, CertificatesTypeOK'
    PROVE  TypeOK' /\ GateInv' /\ GuardInv' /\ GrantedLeavesNothing'
  <1>0. UNCHANGED <<gate, permit, attempts, inside, volume, protected, ensuring, guard>>
    BY Zenon
      DEF lifecycleVars, CertificatesNext, ManagerStep, ReadMaterial, PublishTransition,
       PublishValidationTransition, EnsureSecret, EnsureWebhook, EnsureValidation,
       ReconcileFails, Age, LoseSecret
  <1>1. TypeOK'
    BY <1>0 DEF TypeOK, IInv
  <1>2. ~gate.up => mgr'.step = "idle"
    <2>1. CASE ReadMaterial
      BY <2>1 DEF ReadMaterial, RotateCA, GenerateMaterial
    <2>2. CASE \/ PublishTransition \/ PublishValidationTransition \/ EnsureSecret
               \/ EnsureWebhook \/ EnsureValidation
      BY <2>2, Zenon
        DEF IInv, GateInv, PublishTransition, PublishValidationTransition, EnsureSecret,
         EnsureWebhook, EnsureValidation
    <2>3. CASE ReconcileFails \/ Age \/ LoseSecret
      BY <2>3, IdleIsPass DEF ReconcileFails, Age, LoseSecret, IInv, GateInv
    <2>. QED
      BY <2>1, <2>2, <2>3 DEF CertificatesNext, ManagerStep
  <1>3. GateInv'
    BY <1>0, <1>2 DEF IInv, GateInv, Quiescing
  <1>4. permit.acked => validating' \in {validating, {}}
    <2>1. CASE PublishValidationTransition \/ EnsureValidation
      BY <2>1, ZenonT(30)
        DEF PublishValidationTransition, EnsureValidation, RunValidation, IInv, GateInv
    <2>2. CASE ~(PublishValidationTransition \/ EnsureValidation)
      BY <2>2, Zenon
        DEF CertificatesNext, ManagerStep, ReadMaterial, PublishTransition, EnsureSecret,
         EnsureWebhook, ReconcileFails, Age, LoseSecret
    <2>. QED
      BY <2>1, <2>2
  <1>. QED
    BY <1>0, <1>1, <1>3, <1>4, QuietKeepsGuards DEF IInv

(* The gate.                                                                *)
LEMMA GateKeepsLifecycle ==
    ASSUME IInv, GateStep, CertificatesTypeOK'
    PROVE  TypeOK' /\ GateInv' /\ GuardInv' /\ GrantedLeavesNothing'
  <1>. USE DEF IInv
  <1>1. CASE ReadQuiescing
    <2>1. /\ gate' \in Gates /\ gate'.up = gate.up /\ gate'.quiescing = gate.quiescing
          /\ gate'.sync \in {"open", "close"} /\ (Quiescing => gate'.sync = "close")
      BY <1>1, Reading
    <2>2. UNCHANGED <<certificateVars, lifecycleVars>>
      BY <1>1 DEF ReadQuiescing
    <2>3. TypeOK'
      BY <2>1, <2>2 DEF TypeOK, lifecycleVars
    <2>4. GateInv'
      BY <2>1, <2>2 DEF GateInv, Quiescing, lifecycleVars, certificateVars
    <2>. QED
      BY <2>2, <2>3, <2>4, QuietKeepsGuards DEF lifecycleVars, certificateVars
  <1>2. CASE SetQuiescing
    <2>1. /\ gate' \in Gates /\ gate'.up
          /\ gate.sync = "close" => gate'.quiescing
          /\ gate'.sync \in {"acknowledge", "read"}
          /\ gate'.sync = "acknowledge" => gate.sync = "close" /\ inside = {}
      BY <1>2, Setting
    <2>2. gate.sync \in {"open", "close"} /\ UNCHANGED <<certificateVars, lifecycleVars>>
      BY <1>2 DEF SetQuiescing
    <2>3. TypeOK'
      BY <2>1, <2>2 DEF TypeOK, lifecycleVars
    <2>4. GateInv'
      BY <2>1, <2>2 DEF GateInv, Quiescing, lifecycleVars, certificateVars
    <2>. QED
      BY <2>2, <2>3, <2>4, QuietKeepsGuards DEF lifecycleVars, certificateVars
  <1>3. CASE Acknowledge
    <2>1. /\ gate' \in Gates /\ gate'.up = gate.up /\ gate'.quiescing = gate.quiescing
          /\ gate'.sync = "read" /\ permit' \in Permits
          /\ permit'.state = permit.state /\ permit'.attempt = permit.attempt
          /\ permit'.acked => permit.acked \/ permit.state = "quiescing"
          /\ permit.acked => permit'.acked
      BY <1>3, Acknowledging
    <2>2. /\ gate.sync = "acknowledge"
          /\ UNCHANGED <<certificateVars, attempts, inside, volume, protected, ensuring, guard>>
      BY <1>3 DEF Acknowledge
    <2>3. TypeOK'
      BY <2>1, <2>2 DEF TypeOK
    <2>4. GateInv'
      BY <2>1, <2>2 DEF GateInv, Quiescing, certificateVars
    <2>5. GuardInv'
      BY <2>1, <2>2 DEF GuardInv, Awaits, certificateVars
    <2>6. GrantedLeavesNothing'
      BY <2>1, <2>2 DEF GrantedLeavesNothing, Granted, certificateVars
    <2>. QED
      BY <2>3, <2>4, <2>5, <2>6
  <1>. QED
    BY <1>1, <1>2, <1>3 DEF GateStep

(* The calls, the volumes, the Pool's protection and the controller.        *)
LEMMA CallKeepsLifecycle ==
    ASSUME IInv, CertificatesTypeOK', NEW c \in Calls, Enter(c) \/ CreateVolume(c) \/ Leave(c)
    PROVE  TypeOK' /\ GateInv' /\ GuardInv' /\ GrantedLeavesNothing'
  <1>. USE DEF IInv
  <1>0. UNCHANGED <<gate, mgr, validating, permit, attempts, protected, ensuring, guard>>
    BY DEF Enter, CreateVolume, Leave, certificateVars
  <1>1. inside' \subseteq Calls /\ volume' \in BOOLEAN
    BY Zenon DEF Enter, CreateVolume, Leave, TypeOK
  <1>2. TypeOK'
    BY <1>0, <1>1 DEF TypeOK
  <1>3. inside = {} => inside' = {} \/ Enter(c)
    BY DEF CreateVolume, Leave
  <1>4. GateInv'
    <2>1. CASE Enter(c)
      <3>1. gate.up /\ ~gate.quiescing
        BY <2>1 DEF Enter
      <3>. QED
        BY <1>0, <3>1 DEF GateInv, Quiescing
    <2>2. CASE ~Enter(c)
      BY <1>0, <1>3, <2>2 DEF GateInv, Quiescing
    <2>. QED
      BY <2>1, <2>2
  <1>5. permit.acked => (volume' => volume)
    BY Zenon DEF Enter, CreateVolume, Leave, GateInv
  <1>. QED
    BY <1>0, <1>2, <1>4, <1>5, QuietKeepsGuards

LEMMA OthersKeepLifecycle ==
    ASSUME IInv, CertificatesTypeOK',
           Restart \/ Expire \/ PoolPass \/ NodeReport \/ DeleteVolume
    PROVE  TypeOK' /\ GateInv' /\ GuardInv' /\ GrantedLeavesNothing'
  <1>. USE DEF IInv
  <1>1. CASE Restart
    <2>1. /\ gate' \in Gates /\ ~gate'.up /\ gate'.sync = "read" /\ inside' = {}
          /\ mgr'.step = "idle"
      BY <1>1, ClosedIsGate, IdleIsPass DEF Restart
    <2>2. /\ UNCHANGED <<validating, permit, attempts, volume, protected, guard>>
          /\ ensuring' = FALSE
      BY <1>1 DEF Restart
    <2>3. TypeOK'
      BY <2>1, <2>2, Zenon DEF TypeOK
    <2>4. GateInv'
      BY <2>1, <2>2 DEF GateInv, Quiescing
    <2>. QED
      BY <2>2, <2>3, <2>4, QuietKeepsGuards
  <1>2. CASE Expire
    <2>1. /\ permit' \in Permits /\ permit'.state = "none" /\ permit'.attempt = 0
          /\ ~permit'.acked
      BY <1>2, NoPermitIsPermit DEF Expire
    <2>2. UNCHANGED <<gate, mgr, validating, attempts, inside, volume, protected, ensuring, guard>>
      BY <1>2 DEF Expire, certificateVars
    <2>3. TypeOK'
      BY <2>1, <2>2 DEF TypeOK
    <2>4. GateInv'
      BY <2>1, <2>2 DEF GateInv
    <2>5. attempts \in Nat
      BY DEF TypeOK
    <2>6. GuardInv'
      BY <2>1, <2>2, <2>5 DEF GuardInv, Awaits
    <2>. QED
      BY <2>1, <2>3, <2>4, <2>6 DEF GrantedLeavesNothing, Granted
  <1>3. CASE PoolPass \/ DeleteVolume
    <2>1. /\ UNCHANGED <<gate, mgr, validating, permit, attempts, inside, guard>>
          /\ volume' \in BOOLEAN /\ (volume' => volume)
          /\ protected' \in BOOLEAN /\ ensuring' \in BOOLEAN
      <3>1. CASE PoolPass
        <4>1. UNCHANGED <<gate, mgr, validating, permit, attempts, inside, volume, guard>>
          BY <3>1 DEF PoolPass, ListPoolRegistrations, EnsurePoolFinalizer, certificateVars
        <4>2. volume \in BOOLEAN /\ protected \in BOOLEAN
          BY DEF TypeOK
        <4>3. protected' \in BOOLEAN /\ ensuring' \in BOOLEAN
          <5>1. CASE ListPoolRegistrations
            BY <4>2, <5>1 DEF ListPoolRegistrations
          <5>2. CASE EnsurePoolFinalizer
            BY <5>2, Zenon DEF EnsurePoolFinalizer
          <5>. QED
            BY <3>1, <5>1, <5>2 DEF PoolPass
        <4>. QED
          BY <4>1, <4>2, <4>3
      <3>2. CASE DeleteVolume
        BY <3>2, Zenon DEF DeleteVolume, certificateVars, TypeOK
      <3>. QED
        BY <1>3, <3>1, <3>2
    <2>2. TypeOK'
      BY <2>1 DEF TypeOK
    <2>3. GateInv'
      BY <2>1 DEF GateInv, Quiescing
    <2>. QED
      BY <2>1, <2>2, <2>3, QuietKeepsGuards
  <1>4. CASE NodeReport
    <2>1. UNCHANGED <<gate, mgr, validating, permit, attempts, inside, volume, protected, ensuring>>
      BY <1>4 DEF NodeReport, certificateVars
    <2>2. /\ guard' \in [Guards -> GuardStates]
          /\ \A g \in Guards : /\ guard'[g].step = guard[g].step
                               /\ guard'[g].attempt = guard[g].attempt
      <3>1. ASSUME NEW s \in GuardStates, NEW r \in {"full", "empty"}
            PROVE  /\ [s EXCEPT !.report = r] \in GuardStates
                   /\ [s EXCEPT !.report = r].step = s.step
                   /\ [s EXCEPT !.report = r].attempt = s.attempt
        BY DEF GuardStates
      <3>2. (IF volume THEN "full" ELSE "empty") \in {"full", "empty"}
        OBVIOUS
      <3>. QED
        BY <1>4, <3>1, <3>2, Zenon DEF NodeReport, TypeOK
    <2>3. TypeOK'
      BY <2>1, <2>2 DEF TypeOK
    <2>4. GateInv'
      BY <2>1 DEF GateInv, Quiescing
    <2>5. GuardInv'
      BY <2>1, <2>2 DEF GuardInv, Awaits
    <2>. QED
      BY <2>1, <2>3, <2>4, <2>5 DEF GrantedLeavesNothing, Granted
  <1>. QED
    BY <1>1, <1>2, <1>3, <1>4

-----------------------------------------------------------------------------
(* A guard goes on under its attempt; what it has found out or done holds.  *)
LEMMA GuardProceeds ==
    ASSUME IInv, CertificatesTypeOK', NEW g \in Guards, NEW step, GuardTo(g, step),
           step \in {"check", "release", "disable", "grant", "cancel"},
           UNCHANGED <<gate, mgr, permit, attempts, inside, volume, ensuring>>,
           validating' \in {validating, {}}, protected' \in BOOLEAN,
           Awaits(guard[g].attempt) =>
              /\ step \in {"check", "release", "disable", "grant"} => permit.acked
              /\ step \in {"release", "disable", "grant"} => ~volume
              /\ step = "grant" => validating' = {}
    PROVE  TypeOK' /\ GateInv' /\ GuardInv' /\ GrantedLeavesNothing'
  <1>. USE DEF IInv
  <1>1. /\ guard' \in [Guards -> GuardStates]
        /\ guard'[g].step = step /\ guard'[g].attempt = guard[g].attempt
        /\ \A h \in Guards \ {g} : guard'[h] = guard[h]
    BY GuardTos
  <1>2. TypeOK'
    BY <1>1 DEF TypeOK
  <1>3. GateInv'
    BY DEF GateInv, Quiescing
  <1>4. GuardInv'
    BY <1>1, Zenon DEF GuardInv, Awaits
  <1>. QED
    BY <1>2, <1>3, <1>4 DEF GrantedLeavesNothing, Granted

(* A guard ends: its permit is as it was, granted or gone.                  *)
LEMMA GuardEnds ==
    ASSUME IInv, CertificatesTypeOK', NEW g \in Guards,
           UNCHANGED <<gate, mgr, validating, attempts, inside, volume, protected, ensuring>>,
           permit' = permit \/ permit' = NoPermit,
           guard' = [guard EXCEPT ![g] = IdleGuard]
    PROVE  TypeOK' /\ GateInv' /\ GuardInv' /\ GrantedLeavesNothing'
  <1>. USE DEF IInv
  <1>1. /\ guard' \in [Guards -> GuardStates]
        /\ guard'[g].step = "idle" /\ guard'[g].attempt = 0
        /\ \A h \in Guards \ {g} : guard'[h] = guard[h]
    BY IdleIsGuard DEF TypeOK
  <1>2. permit' \in Permits
    BY NoPermitIsPermit DEF TypeOK
  <1>3. TypeOK'
    BY <1>1, <1>2 DEF TypeOK
  <1>4. attempts \in Nat
    BY DEF TypeOK
  <1>5. CASE permit' = permit
    BY <1>1, <1>3, <1>4, <1>5
       DEF GateInv, Quiescing, GuardInv, Awaits, GrantedLeavesNothing, Granted
  <1>6. CASE permit' = NoPermit
    <2>1. permit'.state = "none" /\ permit'.attempt = 0 /\ ~permit'.acked
      BY <1>6, NoPermitIsPermit
    <2>. QED
      BY <1>1, <1>3, <1>4, <2>1
         DEF GateInv, Quiescing, GuardInv, Awaits, GrantedLeavesNothing, Granted
  <1>. QED
    BY <1>5, <1>6

(* Step by step, the guard.                                                 *)
LEMMA GuardKeepsLifecycle ==
    ASSUME IInv, CertificatesTypeOK', NEW g \in Guards,
           BeginQuiesce(g) \/ GuardStep(g) \/ GuardFails(g) \/ GuardDies(g)
    PROVE  TypeOK' /\ GateInv' /\ GuardInv' /\ GrantedLeavesNothing'
  <1>. USE DEF IInv
  <1>0. /\ guard[g].attempt \in Nat /\ attempts \in Nat /\ protected \in BOOLEAN
        /\ \A h \in Guards : guard[h].attempt \in Nat
        /\ permit.attempt \in Nat
    BY DEF TypeOK, GuardStates, Permits
  <1>1. CASE BeginQuiesce(g)
    <2>1. UNCHANGED <<gate, mgr, validating, inside, volume, protected, ensuring>>
      BY <1>1 DEF BeginQuiesce, certificateVars
    <2>2. attempts' = attempts + 1 /\ attempts' \in Nat
      BY <1>0, <1>1 DEF BeginQuiesce
    <2>3. /\ permit' \in Permits /\ permit'.state = "quiescing" /\ permit'.attempt = attempts'
          /\ ~permit'.acked
      BY <1>1, <2>2 DEF BeginQuiesce, Permits
    <2>4. /\ guard' \in [Guards -> GuardStates]
          /\ guard'[g].step = "wait" /\ guard'[g].attempt = attempts'
          /\ \A h \in Guards \ {g} : guard'[h] = guard[h]
      BY <1>1, <2>2 DEF BeginQuiesce, TypeOK, GuardStates
    <2>5. TypeOK'
      BY <2>1, <2>2, <2>3, <2>4 DEF TypeOK
    <2>6. GateInv'
      BY <2>1, <2>3 DEF GateInv
    <2>7. GuardInv'
      <3>1. \A h \in Guards \ {g} : guard[h].attempt <= attempts' /\ guard[h].attempt # attempts'
        BY <1>0, <2>2 DEF GuardInv
      <3>2. attempts' <= attempts'
        BY <2>2
      <3>. QED
        BY <2>1, <2>3, <2>4, <3>1, <3>2 DEF GuardInv, Awaits
    <2>. QED
      BY <2>3, <2>5, <2>6, <2>7 DEF GrantedLeavesNothing, Granted
  <1>2. CASE WaitForQuiesced(g)
    BY <1>0, <1>2, GuardProceeds, ZenonT(30) DEF WaitForQuiesced, certificateVars
  <1>3. CASE CheckAfter(g)
    <2>1. Awaits(guard[g].attempt) => permit.acked
      BY <1>3, Zenon DEF CheckAfter, GuardAt, GuardInv
    <2>. QED
      BY <1>0, <1>3, <2>1, GuardProceeds
        DEF CheckAfter, DependentsExist, PoolBlocks,
         certificateVars
  <1>4. CASE ReleasePoolProtection(g)
    <2>1. Awaits(guard[g].attempt) => permit.acked /\ ~volume
      BY <1>4 DEF ReleasePoolProtection, GuardAt, GuardInv
    <2>2. protected' \in BOOLEAN
      BY <1>4 DEF ReleasePoolProtection
    <2>. QED
      BY <1>4, <2>1, <2>2, GuardProceeds
        DEF ReleasePoolProtection, certificateVars
  <1>5. CASE DisableValidation(g)
    <2>1. Awaits(guard[g].attempt) => permit.acked /\ ~volume
      BY <1>5, Zenon DEF DisableValidation, GuardAt, GuardInv
    <2>. QED
      BY <1>0, <1>5, <2>1, GuardProceeds, ZenonT(30) DEF DisableValidation
  <1>6. CASE Grant(g)
    <2>0. UNCHANGED <<gate, mgr, validating, attempts, inside, volume, protected, ensuring>>
      BY <1>6 DEF Grant, certificateVars
    <2>1. CASE Awaits(guard[g].attempt) /\ permit.acked
      <3>1. ~volume /\ validating = {}
        BY <1>6, <2>1 DEF Grant, GuardAt, GuardInv
      <3>2. /\ permit' \in Permits /\ permit'.state = "granted"
            /\ permit'.attempt = permit.attempt /\ permit'.acked = permit.acked
        BY <1>6, <2>1, ZenonT(30) DEF Grant, TypeOK, Permits
      <3>3. /\ guard' \in [Guards -> GuardStates]
            /\ guard'[g].step = "idle" /\ guard'[g].attempt = 0
            /\ \A h \in Guards \ {g} : guard'[h] = guard[h]
        BY <1>6, <2>1, IdleIsGuard DEF Grant, TypeOK
      <3>4. TypeOK'
        BY <2>0, <3>2, <3>3 DEF TypeOK
      <3>5. GateInv'
        BY <2>0, <2>1, <3>2, ZenonT(30) DEF GateInv, Quiescing
      <3>6. GuardInv'
        <4>1. permit.attempt <= attempts /\ attempts' = attempts /\ attempts \in Nat
          BY <1>0, <2>0 DEF GuardInv, TypeOK
        <4>2. \A h \in Guards : guard[h].attempt <= attempts
          BY <1>0, Zenon DEF GuardInv
        <4>3. \A h \in Guards : guard'[h].attempt <= attempts
          BY <3>3, <4>1, <4>2
        <4>. QED
          BY <3>2, <4>1, <4>3, ZenonT(30) DEF GuardInv, Awaits
      <3>. QED
        BY <2>0, <3>1, <3>4, <3>5, <3>6 DEF GrantedLeavesNothing
    <2>2. CASE ~(Awaits(guard[g].attempt) /\ permit.acked)
      <3>1. permit' = permit /\ GuardTo(g, "cancel")
        BY <1>6, <2>2 DEF Grant, GuardTo
      <3>. QED
        BY <1>0, <2>0, <3>1, GuardProceeds, Zenon
    <2>. QED
      BY <2>1, <2>2
  <1>7. CASE Cancel(g)
    BY <1>7, GuardEnds, ZenonT(30) DEF Cancel, certificateVars
  <1>8. CASE GuardFails(g)
    BY <1>0, <1>8, GuardProceeds DEF GuardFails, certificateVars
  <1>9. CASE GuardDies(g)
    BY <1>9, GuardEnds, Zenon DEF GuardDies, certificateVars
  <1>. QED
    BY <1>1, <1>2, <1>3, <1>4, <1>5, <1>6, <1>7, <1>8, <1>9 DEF GuardStep

-----------------------------------------------------------------------------
(* The first state: an installed driver.                                    *)
LEMMA InitInv == Init => IInv
  <1>. SUFFICES ASSUME Init PROVE IInv
    OBVIOUS
  <1>0. /\ gate \in Gates /\ gate.up /\ gate.sync = "read"
    BY Zenon DEF Init, Closed, Gates
  <1>1. permit \in Permits /\ permit.state = "none" /\ permit.attempt = 0 /\ ~permit.acked
    BY NoPermitIsPermit DEF Init
  <1>2. /\ guard \in [Guards -> GuardStates]
        /\ \A g \in Guards : guard[g].step = "idle" /\ guard[g].attempt = 0
    BY IdleIsGuard DEF Init
  <1>3. CertificatesTypeOK
    <2>1. 1 \in 0..MaxCA /\ 1 \in 1..MaxCA
      BY CertificatesAssumption
    <2>. QED
      BY <2>1, IdleIsPass, Zenon DEF Init, CertificatesInit, CertificatesTypeOK
  <1>4. CertificatesInv
    BY IdleIsPass DEF Init, CertificatesInit, CertificatesInv
  <1>5. TypeOK
    BY <1>0, <1>1, <1>2, <1>3, Zenon DEF Init, TypeOK
  <1>6. GateInv
    BY <1>0, <1>1 DEF GateInv
  <1>7. GuardInv
    BY <1>1, <1>2 DEF Init, GuardInv, Awaits
  <1>8. GrantedLeavesNothing
    BY <1>1 DEF GrantedLeavesNothing, Granted
  <1>. QED
    BY <1>4, <1>5, <1>6, <1>7, <1>8 DEF IInv

(* The inductive step, and the invariant.                                   *)
LEMMA InvStep == IInv /\ [Next]_vars => IInv'
  <1>. SUFFICES ASSUME IInv, [Next]_vars PROVE IInv'
    OBVIOUS
  <1>1. CertificatesTypeOK' /\ CertificatesInv'
    BY CertificatesStep DEF IInv, TypeOK
  <1>2. CASE UNCHANGED vars
    BY <1>1, <1>2 DEF vars, certificateVars, lifecycleVars, IInv, TypeOK, GateInv, GuardInv,
       GrantedLeavesNothing, Granted, Quiescing, Awaits
  <1>3. CASE Next
    <2>1. TypeOK' /\ GateInv' /\ GuardInv' /\ GrantedLeavesNothing'
      BY <1>1, <1>3, CertificatesKeepLifecycle, GateKeepsLifecycle, CallKeepsLifecycle,
         OthersKeepLifecycle, GuardKeepsLifecycle DEF Next
    <2>. QED
      BY <1>1, <2>1 DEF IInv
  <1>. QED
    BY <1>2, <1>3

LEMMA Invariance == Spec => []IInv
  BY InitInv, InvStep, PTL DEF Spec

(* While an acknowledgement is valid no creation is inside the gate and     *)
(* none can enter, whatever guards run side by side.                        *)
THEOREM UninstallIsQuiet == Spec => []AcknowledgedIsQuiet
  <1>1. IInv => AcknowledgedIsQuiet
    BY DEF IInv, GateInv, AcknowledgedIsQuiet
  <1>. QED
    BY <1>1, Invariance, PTL

(* A granted deletion finds no volume and no validating webhook.            *)
THEOREM UninstallLeavesNothing == Spec => []GrantedLeavesNothing
  <1>1. IInv => GrantedLeavesNothing
    BY DEF IInv
  <1>. QED
    BY <1>1, Invariance, PTL

(* Through every rotation, failed call and restart, the API server trusts   *)
(* the certificate that the mobility webhook is served with.                *)
THEOREM RotationKeepsTrust == Spec => []ServedCertificateIsTrusted
  <1>1. IInv => ServedCertificateIsTrusted
    BY Zenon DEF IInv, CertificatesInv, ServedCertificateIsTrusted
  <1>. QED
    BY <1>1, Invariance, PTL

-----------------------------------------------------------------------------

(* The measurement.                                                         *)

(* A result the caller may be given.                                        *)
Live(result) == result \in seen \cup {"error"}

(* Why an answer to this request is live: what is observable now has been   *)
(* recorded as seen, and only what was read after the request was published *)
(* carries its nonce, in the Node's hands as in the Pool's status.          *)
LiveInv ==
    /\ Measuring => Promise!Observable(pool.ready, room) \subseteq seen
    /\ probe.step \in {"reply", "done"} => Live(probe.result)
    /\ probe.step = "await" =>
          /\ probe.id \in Nonces
          /\ answer.id = probe.id => Live(answer.result)
          /\ node.id = probe.id => Live(node.result)

(* The inductive invariant.                                                 *)
MeasurementInv == MeasurementTypeOK /\ LiveInv

-----------------------------------------------------------------------------
(* What a read returns, and what the fields hold.                           *)
LEMMA Reads ==
    /\ Stat \in {"room", "full"} /\ Stat \in Results
    /\ Unverified \in {"error", "not ready"} /\ Unverified \in Results
    /\ "error" \in Results
  BY DEF Stat, Unverified, Results

LEMMA Fields ==
    ASSUME MeasurementTypeOK
    PROVE  /\ pool.gen \in 0..MaxGen /\ probe.gen \in 0..MaxGen /\ node.gen \in 0..MaxGen
           /\ request.gen \in 0..MaxGen /\ answer.result \in Results
           /\ node.result \in Results /\ probe.result \in Results
           /\ request.id \in Nonces \cup {NoNonce} /\ node.id \in Nonces \cup {NoNonce}
  BY Zenon DEF MeasurementTypeOK, Measurements, Workers, Responses

(* The observations have a type of their own.                               *)
LEMMA Observations ==
    ASSUME NEW isReady, NEW hasRoom
    PROVE  Promise!Observable(isReady, hasRoom) \subseteq {"room", "full", "not ready"}
  BY Zenon DEF Promise!Observable

(* What the edits of the measurement write.                                 *)
LEMMA Finishes ==
    ASSUME MeasurementTypeOK, NEW result \in Results, Finish(result)
    PROVE  /\ probe' \in Measurements
           /\ probe'.step = "done" /\ probe'.result = result
  BY Zenon DEF Finish, MeasurementTypeOK, Measurements

LEMMA Proceeds ==
    ASSUME MeasurementTypeOK, NEW step \in {"call", "request", "helper"}, ProbeTo(step)
    PROVE  probe' \in Measurements /\ probe'.step = step
  BY Zenon DEF ProbeTo, MeasurementTypeOK, Measurements

LEMMA Replies ==
    ASSUME MeasurementTypeOK, NEW result \in Results,
           probe' = [probe EXCEPT !.step = "reply", !.result = result]
    PROVE  probe' \in Measurements /\ probe'.step = "reply" /\ probe'.result = result
  BY Zenon DEF MeasurementTypeOK, Measurements

LEMMA AwaitEdits ==
    ASSUME MeasurementTypeOK, NEW step \in {"await", "helper"}, NEW id \in Nonces \cup {NoNonce},
           probe' = [probe EXCEPT !.step = step, !.id = id]
    PROVE  probe' \in Measurements /\ probe'.step = step /\ probe'.id = id
  BY Zenon DEF MeasurementTypeOK, Measurements

LEMMA WorkerEdits ==
    ASSUME MeasurementTypeOK, NEW step \in {"verify", "record"}, NEW result \in Results,
           node' = [node EXCEPT !.step = step, !.result = result]
    PROVE  node' \in Workers /\ node'.result = result /\ node'.id = node.id
  BY ZenonT(30) DEF MeasurementTypeOK, Workers

(* What is observable now has been recorded as seen: a read made while a    *)
(* measurement is under way is live.                                        *)
LEMMA ReadIsSeen ==
    ASSUME LiveInv, Measuring
    PROVE  /\ Stat \in seen /\ Live(Stat)
           /\ ~pool.ready => "not ready" \in seen
           /\ Live(Unverified) /\ Live("error")
  BY Zenon DEF LiveInv, Stat, Unverified, Live, Promise!Observable

-----------------------------------------------------------------------------
(* The first state.                                                         *)
LEMMA MeasurementInitInv == MeasurementInit => MeasurementInv
  <1>. SUFFICES ASSUME MeasurementInit PROVE MeasurementInv
    OBVIOUS
  <1>1. MeasurementTypeOK
    BY MeasurementAssumption DEF MeasurementInit, MeasurementTypeOK, Measurements,
       Workers, Responses, IdleNode,
       IdleProbe, NoNonce, Results
  <1>2. LiveInv
    BY DEF MeasurementInit, LiveInv, Live, Measuring, IdleProbe
  <1>. QED
    BY <1>1, <1>2 DEF MeasurementInv

(* A call keeps the types: it may be for any Pool that was ever listed.     *)
LEMMA CallType ==
    ASSUME MeasurementTypeOK, NEW gen \in 0..pool.gen, StatFSForPool(gen)
    PROVE  MeasurementTypeOK'
  <1>1. gen \in 0..MaxGen
    <2>1. \A a \in 0..MaxGen : \A g \in 0..a : g \in 0..MaxGen
      BY MeasurementAssumption
    <2>. QED
      BY <2>1, Fields
  <1>2. probe' \in Measurements
    BY <1>1 DEF StatFSForPool, Measurements, Results
  <1>3. seen' \subseteq {"room", "full", "not ready"}
    BY Observations, Zenon DEF StatFSForPool
  <1>. QED
    BY <1>2, <1>3, Zenon DEF MeasurementTypeOK, StatFSForPool

(* So do the other steps of the controller: they only edit the measurement  *)
(* and the request.                                                         *)
LEMMA ControllerType ==
    ASSUME MeasurementTypeOK,
           \/ CallNode \/ GetCapacity \/ AcceptReply \/ RequestPoolCapacityProbe
           \/ Await \/ AwaitTimeout \/ MeasureByHelper \/ Collect
    PROVE  MeasurementTypeOK'
  <1>. DEFINE Rest == UNCHANGED <<pool, room, answer, node>>
  <1>. DEFINE Requests == [id : Nonces \cup {NoNonce}, gen : 0..MaxGen]
  <1>. SUFFICES /\ probe' \in Measurements /\ request' \in Requests
                /\ seen' \subseteq {"room", "full", "not ready"} /\ Rest
    BY Zenon DEF MeasurementTypeOK
  <1>0. request \in Requests
    BY Zenon DEF MeasurementTypeOK
  <1>1. CASE CallNode
    BY <1>0, <1>1, Reads, Finishes, Proceeds, ZenonT(30) DEF CallNode, MeasurementTypeOK
  <1>2. CASE GetCapacity
    BY <1>0, <1>2, Reads, Finishes, Proceeds, Replies, Zenon
      DEF GetCapacity, MeasurementTypeOK
  <1>3. CASE AcceptReply
    BY <1>0, <1>3, Reads, Fields, Finishes, Zenon DEF AcceptReply, MeasurementTypeOK
  <1>4. CASE RequestPoolCapacityProbe
    <2>1. CASE UNCHANGED request /\ (Finish(Unverified) \/ ProbeTo("helper"))
      BY <1>0, <1>4, <2>1, Reads, Finishes, Proceeds, ZenonT(30)
        DEF RequestPoolCapacityProbe, MeasurementTypeOK
    <2>2. ASSUME NEW id \in Nonces, request' = [id |-> id, gen |-> probe.gen],
                 probe' = [probe EXCEPT !.step = "await", !.id = id]
          PROVE  /\ probe' \in Measurements /\ request' \in Requests
                 /\ seen' \subseteq {"room", "full", "not ready"} /\ Rest
      <3>1. probe' \in Measurements
        BY <2>2, AwaitEdits, Zenon
      <3>2. request' \in Requests
        BY <2>2, Fields
      <3>. QED
        BY <1>4, <3>1, <3>2, ZenonT(30) DEF RequestPoolCapacityProbe, MeasurementTypeOK
    <2>. QED
      BY <1>4, <2>1, <2>2, ZenonT(30) DEF RequestPoolCapacityProbe
  <1>5. CASE Await
    BY <1>0, <1>5, Reads, Fields, Finishes, ZenonT(30) DEF Await, MeasurementTypeOK
  <1>6. CASE AwaitTimeout
    BY <1>0, <1>6, AwaitEdits, Zenon DEF AwaitTimeout, MeasurementTypeOK
  <1>7. CASE MeasureByHelper
    BY <1>0, <1>7, Reads, Finishes, Zenon DEF MeasureByHelper, MeasurementTypeOK
  <1>8. CASE Collect
    <2>1. IdleProbe \in Measurements
      BY MeasurementAssumption DEF IdleProbe, Measurements, Results
    <2>. QED
      BY <1>0, <1>8, <2>1, Zenon DEF Collect, MeasurementTypeOK
  <1>. QED
    BY <1>1, <1>2, <1>3, <1>4, <1>5, <1>6, <1>7, <1>8, Zenon

(* And the steps of the Node and of the environment.                        *)
LEMMA NodeType ==
    ASSUME MeasurementTypeOK,
           \/ ReadRequest \/ ReadFilesystem \/ VerifyAgain \/ RecordPoolCapacityProbe
           \/ NodeRestarts \/ RoomChanges \/ PoolChanges
    PROVE  MeasurementTypeOK'
  <1>1. CASE ReadRequest
    <2>1. node' \in Workers
      BY <1>1, Fields, Reads, ZenonT(30) DEF ReadRequest, Workers
    <2>. QED
      BY <1>1, <2>1, ZenonT(30) DEF ReadRequest, MeasurementTypeOK
  <1>2. CASE ReadFilesystem
    BY <1>2, Reads, WorkerEdits, ZenonT(30) DEF ReadFilesystem, MeasurementTypeOK
  <1>3. CASE VerifyAgain
    BY <1>3, Reads, Fields, WorkerEdits, Zenon DEF VerifyAgain, MeasurementTypeOK
  <1>4. CASE NodeRestarts \/ RecordPoolCapacityProbe
    <2>1. IdleNode \in Workers
      BY MeasurementAssumption DEF IdleNode, Workers, Results
    <2>2. [id |-> node.id, gen |-> request.gen, result |-> node.result] \in Responses
      BY Fields, Zenon DEF Responses
    <2>. QED
      BY <1>4, <2>1, <2>2, Zenon
        DEF NodeRestarts, RecordPoolCapacityProbe, MeasurementTypeOK
  <1>5. CASE RoomChanges
    BY <1>5, Observations, Zenon DEF RoomChanges, Changed, MeasurementTypeOK
  <1>6. CASE PoolChanges
    <2>1. pool' \in [ready : BOOLEAN, gen : 0..MaxGen]
      <3>1. CASE pool' = [pool EXCEPT !.ready = ~@]
        BY <3>1, Zenon DEF MeasurementTypeOK
      <3>2. CASE pool.gen < MaxGen /\ pool' = [ready |-> FALSE, gen |-> pool.gen + 1]
        <4>1. \A g \in 0..MaxGen : g < MaxGen => g + 1 \in 0..MaxGen
          BY MeasurementAssumption
        <4>. QED
          BY <3>2, <4>1, Fields
      <3>. QED
        BY <1>6, <3>1, <3>2 DEF PoolChanges
    <2>. QED
      BY <1>6, <2>1, Observations, Zenon DEF PoolChanges, Changed, MeasurementTypeOK
  <1>. QED
    BY <1>1, <1>2, <1>3, <1>4, <1>5, <1>6

(* Every variable keeps its type.                                           *)
LEMMA MeasurementTypeStep ==
    MeasurementTypeOK /\ [MeasurementNext]_measurementVars => MeasurementTypeOK'
  <1>1. MeasurementTypeOK /\ UNCHANGED measurementVars => MeasurementTypeOK'
    BY Zenon DEF MeasurementTypeOK, measurementVars
  <1>. QED
    BY <1>1, CallType, ControllerType, NodeType DEF MeasurementNext

-----------------------------------------------------------------------------
(* A step that leaves the Pool, the room, the answer and the Node alone, and *)
(* ends in a live result or goes on without one, keeps the promise.          *)
LEMMA LiveResult ==
    ASSUME LiveInv, Measuring, UNCHANGED <<pool, room, seen>>,
           \/ probe'.step \in {"reply", "done"} /\ Live(probe'.result)
           \/ probe'.step \in {"call", "request", "helper"}
    PROVE  LiveInv'
  BY Zenon DEF LiveInv, Live, Measuring, Promise!Observable

(* The steps of the controller.                                             *)
LEMMA ControllerLive ==
    ASSUME MeasurementInv,
           \/ \E gen \in 0..pool.gen : StatFSForPool(gen)
           \/ CallNode \/ GetCapacity \/ AcceptReply \/ RequestPoolCapacityProbe
           \/ Await \/ AwaitTimeout \/ MeasureByHelper \/ Collect
    PROVE  LiveInv'
  <1>. USE DEF MeasurementInv
  <1>1. CASE \E gen \in 0..pool.gen : StatFSForPool(gen)
    <2>1. probe'.step = "rpc" /\ UNCHANGED <<pool, room>>
      BY <1>1 DEF StatFSForPool
    <2>2. seen' = Promise!Observable(pool.ready, room)
      BY <1>1 DEF StatFSForPool
    <2>3. (Promise!Observable(pool.ready, room) \subseteq seen)'
      BY <2>1, <2>2, ZenonT(30) DEF Promise!Observable
    <2>. QED
      BY <2>1, <2>3 DEF LiveInv
  <1>2. CASE CallNode
    BY <1>2, ReadIsSeen, Reads, Finishes, Proceeds, LiveResult, ZenonT(30)
      DEF CallNode, Measuring
  <1>3. CASE GetCapacity
    BY <1>3, ReadIsSeen, Reads, Finishes, Proceeds, Replies, LiveResult, ZenonT(30)
       DEF GetCapacity, Measuring
  <1>4. CASE AcceptReply
    <2>1. Live(probe.result)
      BY <1>4 DEF AcceptReply, LiveInv
    <2>. QED
      BY <1>4, <2>1, ReadIsSeen, Reads, Fields, Finishes, LiveResult, ZenonT(30)
        DEF AcceptReply, Measuring
  <1>5. CASE RequestPoolCapacityProbe
    <2>1. CASE UNCHANGED request /\ (Finish(Unverified) \/ ProbeTo("helper"))
      BY <1>5, <2>1, ReadIsSeen, Reads, Finishes, Proceeds, LiveResult, ZenonT(30)
         DEF RequestPoolCapacityProbe, Measuring
    <2>2. ASSUME NEW id \in Nonces \ {request.id, answer.id, node.id},
                 probe' = [probe EXCEPT !.step = "await", !.id = id]
          PROVE  LiveInv'
      <3>1. probe'.step = "await" /\ probe'.id = id
        BY <2>2, AwaitEdits, ZenonT(30)
      <3>. QED
        BY <1>5, <2>2, <3>1, ZenonT(30)
           DEF RequestPoolCapacityProbe, LiveInv, Live, Measuring, Promise!Observable
    <2>. QED
      BY <1>5, <2>1, <2>2, ZenonT(30) DEF RequestPoolCapacityProbe
  <1>6. CASE Await
    <2>1. Answers => Live(answer.result)
      BY <1>6 DEF Await, Answers, LiveInv
    <2>. QED
      BY <1>6, <2>1, ReadIsSeen, Reads, Fields, Finishes, LiveResult, ZenonT(30)
        DEF Await, Measuring
  <1>7. CASE AwaitTimeout
    BY <1>7, AwaitEdits, LiveResult, Zenon DEF AwaitTimeout, Measuring
  <1>8. CASE MeasureByHelper
    BY <1>8, ReadIsSeen, Reads, Finishes, LiveResult, ZenonT(30)
      DEF MeasureByHelper, Measuring
  <1>9. CASE Collect
    BY <1>9, Zenon DEF Collect, IdleProbe, LiveInv, Measuring
  <1>. QED
    BY <1>1, <1>2, <1>3, <1>4, <1>5, <1>6, <1>7, <1>8, <1>9

(* The steps of the Node and of the environment.                            *)
LEMMA NodeLive ==
    ASSUME MeasurementInv,
           \/ ReadRequest \/ ReadFilesystem \/ VerifyAgain \/ RecordPoolCapacityProbe
           \/ NodeRestarts \/ RoomChanges \/ PoolChanges \/ UNCHANGED measurementVars
    PROVE  LiveInv'
  <1>. USE DEF MeasurementInv
  <1>1. CASE ReadRequest
    BY <1>1 DEF ReadRequest, LiveInv, Live, Measuring, Promise!Observable
  <1>2. CASE ReadFilesystem
    <2>1. node'.id = node.id /\ node'.result \in {Stat, "error"}
      BY <1>2, Reads, WorkerEdits, Zenon DEF ReadFilesystem
    <2>2. Measuring => Live(node'.result)
      BY <2>1, ReadIsSeen, Zenon
    <2>. QED
      BY <1>2, <2>1, <2>2, ZenonT(30)
        DEF ReadFilesystem, LiveInv, Live, Measuring, Promise!Observable
  <1>3. CASE VerifyAgain
    <2>1. node'.id = node.id /\ node'.result \in {node.result, "error"}
      <3>. DEFINE verified == IF NodeVerifies THEN node.result ELSE "error"
      <3>1. verified \in Results
        BY Reads, Fields, ZenonT(30)
      <3>. QED
        BY <1>3, <3>1, WorkerEdits, Zenon DEF VerifyAgain
    <2>. QED
      BY <1>3, <2>1, ZenonT(30)
        DEF VerifyAgain, LiveInv, Live, Measuring, Promise!Observable
  <1>4. CASE RecordPoolCapacityProbe
    BY <1>4, MeasurementAssumption, ZenonT(30)
      DEF RecordPoolCapacityProbe, IdleNode, NoNonce, LiveInv,
       Live, Measuring, Promise!Observable
  <1>5. CASE NodeRestarts
    BY <1>5, MeasurementAssumption, Zenon
       DEF NodeRestarts, IdleNode, NoNonce, LiveInv, Live, Measuring, Promise!Observable
  <1>6. CASE RoomChanges \/ PoolChanges
    BY <1>6 DEF RoomChanges, PoolChanges, Changed, LiveInv, Live, Measuring
  <1>7. CASE UNCHANGED measurementVars
    BY <1>7, Zenon DEF measurementVars, LiveInv, Live, Measuring, Promise!Observable
  <1>. QED
    BY <1>1, <1>2, <1>3, <1>4, <1>5, <1>6, <1>7

(* The inductive step, and the invariant.                                   *)
LEMMA MeasurementStep ==
    MeasurementInv /\ [MeasurementNext]_measurementVars => MeasurementInv'
  BY MeasurementTypeStep, ControllerLive, NodeLive DEF MeasurementInv, MeasurementNext

LEMMA MeasurementInvariance == MeasurementSpec => []MeasurementInv
  BY MeasurementInitInv, MeasurementStep, PTL DEF MeasurementSpec

(* What StatFSForPool returns was true of the Pool at a moment between its  *)
(* call and its return, however late Nodes answer earlier requests.         *)
THEOREM MeasurementIsLive == MeasurementSpec => []MeasuredIsLive
  <1>1. MeasurementInv => MeasuredIsLive
    BY DEF MeasurementInv, LiveInv, Live, MeasuredIsLive
  <1>. QED
    BY <1>1, MeasurementInvariance, PTL

-----------------------------------------------------------------------------
(* The measurement as its caller sees it: Promise's probe.                  *)
View == [step |-> IF Measuring THEN "busy" ELSE probe.step, seen |-> seen,
         result |-> IF probe.step = "done" THEN probe.result ELSE "error"]

(* A controller's step goes on measuring, or ends in a live result.         *)
LEMMA ControllerRefines ==
    ASSUME MeasurementInv,
           \/ CallNode \/ GetCapacity \/ AcceptReply \/ RequestPoolCapacityProbe
           \/ Await \/ AwaitTimeout \/ MeasureByHelper
    PROVE  /\ Measuring /\ UNCHANGED <<pool, room, seen>>
           /\ Measuring' \/ (probe'.step = "done" /\ Live(probe'.result))
  <1>. USE DEF MeasurementInv, Measuring
  <1>1. CASE CallNode
    BY <1>1, ReadIsSeen, Reads, Finishes, Proceeds, ZenonT(30) DEF CallNode
  <1>2. CASE GetCapacity
    BY <1>2, ReadIsSeen, Reads, Finishes, Proceeds, Replies, ZenonT(30) DEF GetCapacity
  <1>3. CASE AcceptReply
    <2>1. Live(probe.result)
      BY <1>3 DEF AcceptReply, LiveInv
    <2>. QED
      BY <1>3, <2>1, ReadIsSeen, Reads, Fields, Finishes, ZenonT(30) DEF AcceptReply
  <1>4. CASE RequestPoolCapacityProbe
    BY <1>4, ReadIsSeen, Reads, Finishes, Proceeds, AwaitEdits, ZenonT(30)
      DEF RequestPoolCapacityProbe
  <1>5. CASE Await
    <2>1. Answers => Live(answer.result)
      BY <1>5, ZenonT(30) DEF Await, Answers, LiveInv
    <2>. QED
      BY <1>5, <2>1, ReadIsSeen, Reads, Fields, Finishes, ZenonT(30) DEF Await
  <1>6. CASE AwaitTimeout
    BY <1>6, AwaitEdits, ZenonT(30) DEF AwaitTimeout
  <1>7. CASE MeasureByHelper
    BY <1>7, ReadIsSeen, Reads, Finishes, ZenonT(30) DEF MeasureByHelper
  <1>. QED
    BY <1>1, <1>2, <1>3, <1>4, <1>5, <1>6, <1>7

(* Every step is a step of the promise, or invisible to the caller.         *)
LEMMA StepRefines ==
    ASSUME MeasurementInv, [MeasurementNext]_measurementVars
    PROVE  Promise!ProbeNext \/ UNCHANGED <<pool.ready, room, View>>
  <1>1. ASSUME NEW gen \in 0..pool.gen, StatFSForPool(gen) PROVE Promise!Call
    BY <1>1 DEF StatFSForPool, Promise!Call, Promise!Begin, Measuring
  <1>2. CASE \/ CallNode \/ GetCapacity \/ AcceptReply \/ RequestPoolCapacityProbe
             \/ Await \/ AwaitTimeout \/ MeasureByHelper
    <2>1. /\ Measuring /\ UNCHANGED <<pool, room, seen>>
          /\ Measuring' \/ (probe'.step = "done" /\ Live(probe'.result))
      BY <1>2, ControllerRefines
    <2>2. CASE Measuring'
      BY <2>1, <2>2, ZenonT(30) DEF View, Measuring
    <2>3. CASE probe'.step = "done" /\ Live(probe'.result)
      <3>1. View.step = "busy" /\ View.seen = seen
        BY <2>1 DEF View
      <3>2. View' = [step |-> "done", result |-> probe'.result, seen |-> seen]
        BY <2>1, <2>3 DEF View, Measuring
      <3>3. probe'.result \in seen \cup {"error"}
        BY <2>3 DEF Live
      <3>. QED
        BY <2>1, <3>1, <3>2, <3>3, Zenon DEF View, Promise!ProbeNext, Promise!Return
    <2>. QED
      BY <2>1, <2>2, <2>3
  <1>3. CASE Collect
    BY <1>3, Zenon DEF Collect, IdleProbe, Promise!ProbeNext, Promise!Collect,
         Promise!IdleProbe, Measuring
  <1>4. CASE RoomChanges \/ PoolChanges
    <2>1. pool'.ready \in BOOLEAN /\ room' \in BOOLEAN /\ probe' = probe
      BY <1>4, NodeType, Zenon
        DEF MeasurementInv, MeasurementTypeOK, RoomChanges, PoolChanges
    <2>2. seen' = IF Measuring THEN seen \cup Promise!Observable(pool'.ready, room') ELSE seen
      BY <1>4 DEF RoomChanges, PoolChanges, Changed
    <2>3. Measuring' = Measuring
      BY <2>1 DEF Measuring
    <2>4. CASE Measuring
      <3>1. View' = [View EXCEPT !.seen = seen \cup Promise!Observable(pool'.ready, room')]
        BY <2>1, <2>2, <2>3, <2>4 DEF View
      <3>2. View.step = "busy" /\ View.seen = seen
        BY <2>4 DEF View
      <3>. QED
        BY <2>1, <3>1, <3>2 DEF View, Promise!ProbeNext, Promise!Change
    <2>5. CASE ~Measuring
      <3>1. View' = [View EXCEPT !.seen = seen] /\ View.step # "busy" /\ View.seen = seen
        BY <2>1, <2>2, <2>3, <2>5 DEF View, Measuring
      <3>. QED
        BY <2>1, <3>1 DEF View, Promise!ProbeNext, Promise!Change
    <2>. QED
      BY <2>4, <2>5
  <1>5. CASE ReadRequest \/ ReadFilesystem \/ VerifyAgain \/ RecordPoolCapacityProbe
             \/ NodeRestarts \/ UNCHANGED measurementVars
    BY <1>5
      DEF ReadRequest, ReadFilesystem, VerifyAgain, RecordPoolCapacityProbe, NodeRestarts,
       measurementVars, View, Measuring
  <1>. QED
    BY <1>1, <1>2, <1>3, <1>4, <1>5 DEF MeasurementNext, Promise!ProbeNext

(* The gRPC call, the annotation and the helper Pod together implement the  *)
(* promise that admission relies on.                                        *)
THEOREM MeasurementImplementsProbe == MeasurementSpec => ImplementsProbe
  <1>1. MeasurementInit => Promise!ProbeInit
    <2>. SUFFICES ASSUME MeasurementInit PROVE Promise!ProbeInit
      OBVIOUS
    <2>1. pool.ready = TRUE /\ room \in BOOLEAN /\ seen = {} /\ probe.step = "idle"
      BY DEF MeasurementInit, IdleProbe
    <2>2. View = Promise!IdleProbe
      BY <2>1 DEF View, Promise!IdleProbe, Measuring
    <2>. QED
      BY <2>1, <2>2, ZenonT(30) DEF View, Promise!ProbeInit
  <1>2. MeasurementInv /\ [MeasurementNext]_measurementVars
            => [Promise!ProbeNext]_<<pool.ready, room, View>>
    BY StepRefines
  <1>. QED
    BY <1>1, <1>2, MeasurementInvariance, PTL
       DEF MeasurementSpec, ImplementsProbe, Promise!ProbeSpec, View

=============================================================================
