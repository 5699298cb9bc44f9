---------------------------- MODULE Certificates ----------------------------
(***************************************************************************)
(* The certificate manager: it keeps a CA and a serving certificate in a   *)
(* Secret, serves the admission webhooks with it, and publishes the CA in  *)
(* the two webhook configurations, of which the API server trusts nothing  *)
(* else.  A CA is a number, given in the order of their generation, and    *)
(* stands for the serving certificates it signs: the renewal of a leaf     *)
(* under the same CA changes no trust.                                     *)
(*                                                                         *)
(* The manager is a goroutine of the controller, whose uninstall gate      *)
(* (variable gate, module Uninstall) keeps it from the validating          *)
(* configuration while an uninstall is under way.                          *)
(***************************************************************************)
EXTENDS Naturals

CONSTANTS
    MaxCA,    \* bound: CAs generated
    MaxFaults \* bound: failed writes of the manager and restarts of the controller

ASSUME CertificatesAssumption == MaxCA \in Nat \ {0} /\ MaxFaults \in Nat

NoCA == 0

VARIABLES
    gate,       \* [up, quiescing, sync, attempt] of the controller process
    secret,     \* the CA in the webhook TLS Secret, or NoCA
    issued,     \* CAs generated so far
    aged,       \* is the CA of the Secret due for rotation ?
    active,     \* CA of the certificate being served, NoCA before the first pass
    mutating,   \* CA bundle of the MutatingWebhookConfiguration, {} when absent
    validating, \* CA bundle of the ValidatingWebhookConfiguration, {} when absent
    mgr,        \* the pass: [step, seen, old, next]
    faults

certificateVars == <<secret, issued, aged, active, mutating, validating, mgr, faults>>

IdleManager == [step |-> "idle", seen |-> NoCA, old |-> NoCA, next |-> NoCA]

(* An installed driver.                                                     *)
CertificatesInit ==
    /\ secret = 1 /\ issued = 1 /\ aged = FALSE /\ active = 1
    /\ mutating = {1} /\ validating = {1} /\ mgr = IdleManager
    /\ faults = 0

-----------------------------------------------------------------------------

(* currentTrustedCABundle.                                                  *)
Trusted == mutating \cup validating

(* Mutant: the CA that signed the served certificate has no preference.     *)
TransitionBaseAny ==
    IF secret # NoCA THEN {secret} ELSE IF Trusted = {} THEN {NoCA} ELSE Trusted

(* transitionBaseCA: the Secret's CA; without a Secret the trusted one that *)
(* signed the served certificate; else any that is trusted.                 *)
TransitionBase ==
    IF secret # NoCA THEN {secret}
    ELSE IF active \in Trusted THEN {active}
    ELSE IF Trusted = {} THEN {NoCA} ELSE Trusted

(* parseMaterial: the Secret is missing, or its CA due for rotation.        *)
RotateCA == secret = NoCA \/ aged

(* generateMaterial without a CA to sign with.                              *)
GenerateMaterial == issued + 1

(* Reconcile reads the Secret and the published trust, and decides whether  *)
(* to generate a new CA.                                                    *)
ReadMaterial ==
    /\ mgr.step = "idle" /\ gate.up
    /\ IF RotateCA
       THEN /\ issued < MaxCA /\ issued' = GenerateMaterial
            /\ \E old \in TransitionBase :
                mgr' = [step |-> IF old = NoCA THEN "secret" ELSE "publish",
                        seen |-> secret, old |-> old, next |-> issued']
       ELSE /\ mgr' = [step |-> "secret", seen |-> secret, old |-> NoCA, next |-> secret]
            /\ UNCHANGED issued
    /\ UNCHANGED <<gate, secret, aged, active, mutating, validating, faults>>

Goto(step) == mgr' = [mgr EXCEPT !.step = step]

(* mergeCertificateBundles: the new CA beside the old one.                  *)
TransitionBundle == {mgr.old, mgr.next}

(* ensureWebhook with the transition bundle.                                *)
PublishTransition ==
    /\ mgr.step = "publish"
    /\ mutating' = TransitionBundle /\ Goto("publish validation")
    /\ UNCHANGED <<gate, secret, issued, aged, active, validating, faults>>

(* Mutant: the gate is not asked.                                           *)
RunValidationAlways(bundle) == validating' = bundle

(* Mutant: a configuration that an uninstall has removed stays removed.     *)
RunValidationExisting(bundle) ==
    validating' = IF gate.quiescing \/ validating = {} THEN validating ELSE bundle

(* RunValidation: skipped, without an error, while an uninstall quiesces.   *)
RunValidation(bundle) == validating' = IF gate.quiescing THEN validating ELSE bundle

PublishValidationTransition ==
    /\ mgr.step = "publish validation"
    /\ RunValidation(TransitionBundle) /\ Goto("secret")
    /\ UNCHANGED <<gate, secret, issued, aged, active, mutating, faults>>

Fault == faults < MaxFaults /\ faults' = faults + 1

(* ensureSecret, a write against the Secret as it was read, after which the *)
(* certificate is served.  It may take effect although its reply is lost.   *)
EnsureSecret ==
    /\ mgr.step = "secret"
    /\ LET kept == secret = mgr.seen
       IN /\ secret' = IF kept THEN mgr.next ELSE secret
          /\ aged' = (aged /\ mgr.next = secret)
          /\ \/ kept /\ active' = mgr.next /\ Goto("ensure") /\ UNCHANGED faults
             \/ kept /\ active' = active /\ mgr' = IdleManager /\ Fault
             \/ ~kept /\ active' = active /\ mgr' = IdleManager /\ UNCHANGED faults
    /\ UNCHANGED <<gate, issued, mutating, validating>>

EnsureWebhook ==
    /\ mgr.step = "ensure"
    /\ mutating' = {mgr.next} /\ Goto("ensure validation")
    /\ UNCHANGED <<gate, secret, issued, aged, active, validating, faults>>

EnsureValidation ==
    /\ mgr.step = "ensure validation"
    /\ RunValidation({mgr.next}) /\ mgr' = IdleManager
    /\ UNCHANGED <<gate, secret, issued, aged, active, mutating, faults>>

(* Any API call may fail and end the pass.                                  *)
ReconcileFails ==
    /\ mgr.step # "idle" /\ mgr' = IdleManager /\ Fault
    /\ UNCHANGED <<gate, secret, issued, aged, active, mutating, validating>>

(* Months pass.  A CA is due for rotation long after the pass that brought  *)
(* it in, and every restart, has settled.                                   *)
Age ==
    /\ mgr.step = "idle" /\ secret # NoCA /\ active = secret /\ mutating = {secret}
    /\ ~aged /\ issued < MaxCA /\ aged' = TRUE
    /\ UNCHANGED <<gate, secret, issued, active, mutating, validating, mgr, faults>>

(* An operator deletes the Secret.                                          *)
LoseSecret ==
    /\ secret # NoCA /\ issued < MaxCA /\ secret' = NoCA /\ aged' = FALSE
    /\ UNCHANGED <<gate, issued, active, mutating, validating, mgr, faults>>

ManagerStep ==
    \/ ReadMaterial \/ PublishTransition \/ PublishValidationTransition
    \/ EnsureSecret \/ EnsureWebhook \/ EnsureValidation

CertificatesNext == ManagerStep \/ ReconcileFails \/ Age \/ LoseSecret

-----------------------------------------------------------------------------

Passes ==
    [step : {"idle", "publish", "publish validation", "secret", "ensure", "ensure validation"},
     seen : 0..MaxCA, old : 0..MaxCA, next : 0..MaxCA]

CertificatesTypeOK ==
    /\ secret \in 0..MaxCA /\ issued \in 1..MaxCA /\ aged \in BOOLEAN
    /\ active \in 0..MaxCA /\ mutating \subseteq 1..MaxCA /\ validating \subseteq 1..MaxCA
    /\ mgr \in Passes /\ faults \in Nat

(* Whatever call of a rotation fails, and wherever the controller is        *)
(* restarted in it, the API server can verify the certificate that the      *)
(* controller serves to the mobility webhook: Reconcile publishes the new   *)
(* CA beside the old one before it serves a new certificate, and withdraws  *)
(* the old one after.                                                       *)
ServedCertificateIsTrusted == active = NoCA \/ mutating = {} \/ active \in mutating

=============================================================================
