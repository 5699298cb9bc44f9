------------------------------ MODULE Retries -------------------------------
(***************************************************************************)
(* Provisioning that has to wait.  A CreateVolume call that finds no ready *)
(* Pool, or no room in it, registers its claim in the controller's index   *)
(* of waiters; a loop compares the waiters with the Pools and the ledger   *)
(* and notifies the claims that may have become placeable, by an           *)
(* annotation that makes the provisioner call again.  The index is         *)
(* advisory, bounded and lost with the process.                            *)
(*                                                                         *)
(* One Pool; every claim asks for one unit of it.  A call measures it      *)
(* (module Measurement), with any result.  How the Pool's lock makes the   *)
(* admission safe is module Admission's matter: here an admitted call      *)
(* binds its claim in one step.                                            *)
(***************************************************************************)
EXTENDS Naturals, SequencesExt

CONSTANTS
    Claims,     \* PersistentVolumeClaims that select the Pool's node
    Limit,      \* units the Pool's reservation limit admits
    MaxWaiters, \* maxWaiters
    MaxFaults   \* bound: failed API calls of the loop

ASSUME RetriesAssumption == Limit \in Nat /\ MaxWaiters \in Nat /\ MaxFaults \in Nat

NoClaim == "none"

VARIABLES
    ready,   \* is the Pool ready ?
    claim,   \* "pending", "bound" or "gone" (deleted, or moved to another node)
    call,    \* CreateVolume of each claim: [step, news]
    waiting, \* the index, in the order of firstSeen
    pass,    \* the loop: [step, todo, later, free, taken]
    owed,    \* history: the claims that may count on a notification
    faults

vars == <<ready, claim, call, waiting, pass, owed, faults>>

IdleCall == [step |-> "idle", news |-> FALSE]
IdlePass == [step |-> "idle", todo |-> << >>, later |-> << >>, free |-> 0, taken |-> NoClaim]

Init ==
    /\ ready = TRUE
    /\ claim = [c \in Claims |-> "pending"]
    /\ call = [c \in Claims |-> [IdleCall EXCEPT !.step = "due"]]
    /\ waiting = << >> /\ pass = IdlePass /\ owed = {} /\ faults = 0

Reserved == Cardinality({c \in Claims : claim[c] = "bound"})
Fault == faults < MaxFaults /\ faults' = faults + 1

-----------------------------------------------------------------------------
(* The index.  A waiter is [claim, kind, news, current, taken]: what it     *)
(* waits for (capacity, or an observation of the Pool); is there news of    *)
(* the Pool it has seen, if it has seen one ?; is its serial the one in the *)
(* loop's snapshot ?; has notify taken it out ?  A taken one keeps its      *)
(* place, which a failed notification gives back to it.                     *)

Holds(c, w) == w.claim = c /\ ~w.taken
Held(c) == \E i \in 1..Len(waiting) : Holds(c, waiting[i])
Full == Len(SelectSeq(waiting, LAMBDA w : ~w.taken)) >= MaxWaiters

(* Register and RegisterObservation.                                        *)
Register(c, kind, news) ==
    LET w == [claim |-> c, kind |-> kind, news |-> news, current |-> FALSE, taken |-> FALSE]
    IN /\ waiting' = IF Held(c)
                     THEN [i \in 1..Len(waiting) |-> IF Holds(c, waiting[i]) THEN w ELSE waiting[i]]
                     ELSE IF Full THEN waiting ELSE Append(waiting, w)
       /\ owed' = IF Held(c) \/ ~Full THEN owed \cup {c} ELSE owed

Drop(c) == waiting' = SelectSeq(waiting, LAMBDA w : ~Holds(c, w))

(* Fifteen minutes without a call.                                          *)
Expire(c) ==
    /\ Held(c) /\ call[c].step = "idle" /\ Drop(c) /\ owed' = owed \ {c}
    /\ UNCHANGED <<ready, claim, call, pass, faults>>

-----------------------------------------------------------------------------
(* The CSI call.                                                            *)

CallTo(c, step) == call' = [call EXCEPT ![c] = [IdleCall EXCEPT !.step = step]]

(* The provisioner calls again by itself, after a back-off.                 *)
ProvisionerRetry(c) ==
    /\ call[c].step = "idle" /\ claim[c] = "pending" /\ CallTo(c, "due")
    /\ UNCHANGED <<ready, claim, waiting, pass, owed, faults>>

(* placeNewCreate lists the Pools.                                          *)
ObservePools(c) ==
    /\ call[c].step = "due"
    /\ IF claim[c] # "pending"
       THEN CallTo(c, "idle") /\ UNCHANGED <<waiting, owed>>
       ELSE IF ready
       THEN /\ call' = [call EXCEPT ![c] = [step |-> "listed", news |-> FALSE]]
            /\ UNCHANGED <<waiting, owed>>
       ELSE CallTo(c, "idle") /\ Register(c, "observation", TRUE)
    /\ UNCHANGED <<ready, claim, pass, faults>>

(* capacityDenied: a claim whose consumer the scheduler may still place is  *)
(* sent away; a fixed or unknown one waits here.                            *)
CapacityDenied(c) ==
    \/ Register(c, "capacity", FALSE) /\ UNCHANGED claim
    \/ claim' = [claim EXCEPT ![c] = "gone"] /\ UNCHANGED <<waiting, owed>>

(* attemptCreateInPool, under the Pool's lock: the ledger, the measurement, *)
(* which an error leaves to the provisioner to repeat, and BeginCreate,     *)
(* which finds the Pool ready or not.                                       *)
AttemptCreateInPool(c) ==
    /\ call[c].step = "listed" /\ CallTo(c, "idle")
    /\ \/ CapacityDenied(c)
       \/ /\ Reserved < Limit /\ UNCHANGED claim
          /\ \/ UNCHANGED <<waiting, owed>>
             \/ Register(c, "observation", call[c].news)
       \/ /\ Reserved < Limit /\ ready /\ claim' = [claim EXCEPT ![c] = "bound"]
          /\ UNCHANGED <<waiting, owed>>
    /\ UNCHANGED <<ready, pass, faults>>

(* A claim is deleted, its volume with it, or selects another node.         *)
ClaimLeaves(c) ==
    /\ claim[c] # "gone" /\ call[c].step = "idle" /\ claim' = [claim EXCEPT ![c] = "gone"]
    /\ UNCHANGED <<ready, call, waiting, pass, owed, faults>>

-----------------------------------------------------------------------------
(* The Pool.  A status write carries a new probe time, by which waiters     *)
(* that have seen the Pool know it from the one they saw.                   *)

Refreshed ==
    /\ waiting' = [i \in 1..Len(waiting) |->
                    [waiting[i] EXCEPT !.news = @ \/ waiting[i].kind = "observation"]]
    /\ call' = [c \in Claims |-> [call[c] EXCEPT !.news = call[c].step = "listed"]]

SetPoolStatus ==
    /\ ready' \in BOOLEAN /\ Refreshed
    /\ UNCHANGED <<claim, pass, owed, faults>>

(* The finalizer, or another Pool on the same device, comes and goes.       *)
PoolFlaps ==
    /\ ready' = ~ready
    /\ UNCHANGED <<claim, call, waiting, pass, owed, faults>>

-----------------------------------------------------------------------------
(* The loop.                                                                *)

(* Mutant: the waiters come in the order of the claims.                     *)
SnapshotByClaim == SetToSeq({waiting[i].claim : i \in 1..Len(waiting)})

(* snapshot: the waiters by firstSeen.                                      *)
Snapshot == [i \in 1..Len(waiting) |-> waiting[i].claim]

(* A wake-up or the ticker starts a pass.                                   *)
BeginPass ==
    /\ pass.step = "idle" /\ waiting # << >>
    /\ pass' = [IdlePass EXCEPT !.step = "pools", !.todo = Snapshot]
    /\ waiting' = [i \in 1..Len(waiting) |-> [waiting[i] EXCEPT !.current = TRUE]]
    /\ UNCHANGED <<ready, claim, call, owed, faults>>

EndPass ==
    /\ pass' = IdlePass
    /\ waiting' = [i \in 1..Len(waiting) |-> [waiting[i] EXCEPT !.current = FALSE]]

Current(c, w) == Holds(c, w) /\ w.current

(* matches: a waiter that has seen the Pool waits for a new observation.    *)
Matches(w) == w.kind = "observation" => w.news

(* The waiters of the snapshot that wait for these and match the Pool.      *)
Candidates(kind) ==
    SelectSeq(pass.todo, LAMBDA c : \E i \in 1..Len(waiting) :
        Current(c, waiting[i]) /\ waiting[i].kind = kind /\ Matches(waiting[i]))

(* The Pools are read once; without a ready one nobody is notified.         *)
ReadyPools ==
    /\ pass.step = "pools"
    /\ IF ready
       THEN /\ pass' = [pass EXCEPT !.step = "observations", !.todo = Candidates("observation"),
                                    !.later = Candidates("capacity")]
            /\ UNCHANGED waiting
       ELSE EndPass
    /\ UNCHANGED <<ready, claim, call, owed, faults>>

(* After the observations the ledger is read, if anybody waits for space.   *)
ReadLedger ==
    /\ pass.step = "observations" /\ pass.todo = << >> /\ pass.taken = NoClaim
    /\ IF pass.later # << >>
       THEN /\ pass' = [pass EXCEPT !.step = "capacity", !.todo = pass.later, !.later = << >>,
                                    !.free = Limit - Reserved]
            /\ UNCHANGED waiting
       ELSE EndPass
    /\ UNCHANGED <<ready, claim, call, owed, faults>>

(* notify, up to take: the next claim is read.  A waiter whose claim does   *)
(* not qualify any more is forgotten; one that has been registered anew is  *)
(* left alone.                                                              *)
Notify ==
    /\ pass.step \in {"observations", "capacity"} /\ pass.todo # << >> /\ pass.taken = NoClaim
    /\ pass.step = "capacity" => pass.free > 0
    /\ LET c == Head(pass.todo)
           asks == \E i \in 1..Len(waiting) : Current(c, waiting[i])
           next == [pass EXCEPT !.todo = Tail(@)]
       IN \/ /\ claim[c] = "pending" /\ asks /\ pass' = [next EXCEPT !.taken = c]
             /\ waiting' = [i \in 1..Len(waiting) |->
                                [waiting[i] EXCEPT !.taken = @ \/ Current(c, waiting[i])]]
             /\ UNCHANGED <<owed, faults>>
          \/ /\ claim[c] # "pending" /\ pass' = next
             /\ waiting' = SelectSeq(waiting, LAMBDA w : ~Current(c, w))
             /\ owed' = owed \ (IF asks THEN {c} ELSE {})
             /\ UNCHANGED faults
          \/ /\ claim[c] = "pending" /\ ~asks /\ pass' = next
             /\ UNCHANGED <<waiting, owed, faults>>
          \/ Fault /\ pass' = next /\ UNCHANGED <<waiting, owed>>
    /\ UNCHANGED <<ready, claim, call>>

(* Mutant: a failed notification forgets the waiter.                        *)
RestoreNot(c) == SelectSeq(waiting, LAMBDA w : ~w.taken)

(* A failed notification puts the waiter back, unless a newer registration  *)
(* has come or the index has filled up.                                     *)
Restore(c) ==
    IF Held(c) \/ Full THEN SelectSeq(waiting, LAMBDA w : ~w.taken)
    ELSE [i \in 1..Len(waiting) |-> [waiting[i] EXCEPT !.taken = FALSE]]

(* Only a waiter for capacity uses up the pass's budget.                    *)
Charge == IF pass.step = "capacity" THEN pass.free - 1 ELSE pass.free

(* notify, its Update: it conflicts if the claim has changed.               *)
UpdateClaim ==
    /\ pass.taken # NoClaim
    /\ LET c == pass.taken
       IN \/ /\ claim[c] = "pending" /\ owed' = owed \ {c}
             /\ waiting' = SelectSeq(waiting, LAMBDA w : ~w.taken)
             /\ pass' = [pass EXCEPT !.taken = NoClaim, !.free = Charge]
             /\ IF call[c].step = "idle" THEN CallTo(c, "due") ELSE UNCHANGED call
             /\ UNCHANGED faults
          \/ /\ pass' = [pass EXCEPT !.taken = NoClaim] /\ waiting' = Restore(c)
             /\ owed' = IF Held(c) \/ ~Full THEN owed ELSE owed \ {c}
             /\ IF claim[c] = "pending" THEN Fault ELSE UNCHANGED faults
             /\ UNCHANGED call
    /\ UNCHANGED <<ready, claim>>

FinishPass ==
    /\ pass.step = "capacity" /\ pass.taken = NoClaim
    /\ pass.todo = << >> \/ pass.free = 0
    /\ EndPass /\ UNCHANGED <<ready, claim, call, owed, faults>>

(* A list fails, or the pass runs out of its ten seconds.                   *)
PassFails ==
    /\ pass.step # "idle" /\ pass.taken = NoClaim /\ Fault /\ EndPass
    /\ UNCHANGED <<ready, claim, call, owed>>

(* The controller is replaced; the index starts empty.                      *)
Restart ==
    /\ Fault /\ waiting' = << >> /\ pass' = IdlePass /\ owed' = {}
    /\ call' = [c \in Claims |-> IdleCall]
    /\ UNCHANGED <<ready, claim>>

-----------------------------------------------------------------------------

CallStep(c) == ObservePools(c) \/ AttemptCreateInPool(c)
PassStep == BeginPass \/ ReadyPools \/ ReadLedger \/ Notify \/ UpdateClaim \/ FinishPass

Next ==
    \/ \E c \in Claims : \/ CallStep(c) \/ ProvisionerRetry(c) \/ ClaimLeaves(c) \/ Expire(c)
    \/ SetPoolStatus \/ PoolFlaps
    \/ PassStep \/ PassFails \/ Restart

Spec == Init /\ [][Next]_vars

(* The loop's ticker never stops, and calls return.                         *)
(* The provisioner's own retries, the Pool's recovery and space are not     *)
(* counted on.                                                              *)
Fairness ==
    /\ WF_vars(PassStep)
    /\ \A c \in Claims : WF_vars(CallStep(c))

FairSpec == Spec /\ Fairness

-----------------------------------------------------------------------------
(* Every variable holds what its declaration says, and the index is within  *)
(* its bound.                                                               *)
TypeOK ==
    /\ ready \in BOOLEAN
    /\ claim \in [Claims -> {"pending", "bound", "gone"}]
    /\ call \in [Claims -> [step : {"idle", "due", "listed"}, news : BOOLEAN]]
    /\ \A i \in 1..Len(waiting) :
        waiting[i] \in [claim : Claims, kind : {"capacity", "observation"}, news : BOOLEAN,
                        current : BOOLEAN, taken : BOOLEAN]
    /\ Len(SelectSeq(waiting, LAMBDA w : ~w.taken)) <= MaxWaiters
    /\ pass.step \in {"idle", "pools", "observations", "capacity"} /\ pass.free \in 0..Limit
    /\ owed \subseteq Claims /\ faults \in 0..MaxFaults

(* A claim that a call has registered stays in the index, or in the hands   *)
(* of notify, until it is notified, expires, or stops to qualify: neither a *)
(* failed notification nor one that races with a newer registration loses   *)
(* it.                                                                      *)
NoWakeupIsLost ==
    \A c \in owed : \E i \in 1..Len(waiting) : waiting[i].claim = c

(* May the loop notify the claim as things are ?                            *)
Notifiable(c) ==
    /\ ready /\ call[c].step = "idle"
    /\ \E i \in 1..Len(waiting) :
        /\ Holds(c, waiting[i]) /\ Matches(waiting[i])
        /\ waiting[i].kind = "capacity" => Reserved < Limit

(* No waiter starves: a claim that could be placed is notified, although    *)
(* others that are notified before it register again and again and the      *)
(* budget of a pass is too small for all.                                   *)
NoWaiterStarves == \A c \in Claims : Notifiable(c) ~> ~Notifiable(c)

=============================================================================
