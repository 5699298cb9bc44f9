----------------------------- MODULE LiveProbe ------------------------------
(***************************************************************************)
(* What a measurement of a Pool promises to the admission that waits for   *)
(* it: an error at any time, or else something that was true of the Pool   *)
(* at a moment between its call and its return.  Module Measurement shows  *)
(* that the transports keep this promise; module Retries builds on it.     *)
(***************************************************************************)
VARIABLES
    ready, \* is the Pool ready ?
    room,  \* has its filesystem room for a request ?
    probe  \* the measurement: [step, result, seen]

(* What there is to observe of the Pool.                                    *)
Observable(isReady, hasRoom) ==
    {IF hasRoom THEN "room" ELSE "full"} \cup (IF isReady THEN {} ELSE {"not ready"})

IdleProbe == [step |-> "idle", result |-> "error", seen |-> {}]

ProbeInit == ready \in BOOLEAN /\ room \in BOOLEAN /\ probe = IdleProbe

Begin == probe' = [step |-> "busy", result |-> "error", seen |-> Observable(ready, room)]

(* StatFSForPool is called for a Pool ...                                   *)
Call ==
    /\ probe.step = "idle" /\ Begin
    /\ UNCHANGED <<ready, room>>

(* ... that changes meanwhile ...                                           *)
Change ==
    /\ ready' \in BOOLEAN /\ room' \in BOOLEAN
    /\ probe' = [probe EXCEPT !.seen =
                    IF probe.step = "busy" THEN @ \cup Observable(ready', room') ELSE @]

(* ... and returns.                                                         *)
Return ==
    /\ probe.step = "busy"
    /\ \E result \in probe.seen \cup {"error"} :
        probe' = [step |-> "done", result |-> result, seen |-> probe.seen]
    /\ UNCHANGED <<ready, room>>

(* The caller uses the result, or dies.                                     *)
Collect ==
    /\ probe.step # "idle" /\ probe' = IdleProbe
    /\ UNCHANGED <<ready, room>>

ProbeNext == Call \/ Change \/ Return \/ Collect
ProbeSpec == ProbeInit /\ [][ProbeNext]_<<ready, room, probe>>

=============================================================================
