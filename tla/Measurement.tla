---------------------------- MODULE Measurement -----------------------------
(***************************************************************************)
(* The live measurement of a Pool's filesystem that admission decides by.  *)
(* The controller asks the Node over gRPC; if that is not possible, or too *)
(* slow, through an annotation of the Pool, which the Node answers in the  *)
(* Pool's status; and as the last resort with a helper Pod.  Every caller  *)
(* holds the Pool's lock, so that one measurement at a time is under way,  *)
(* but the Node may still be busy with a request nobody waits for.         *)
(*                                                                         *)
(* A generation stands for the measurement evidence (registration and      *)
(* mount identity), and room for the bytes that statfs reports: is there   *)
(* enough for the request ?                                                *)
(***************************************************************************)
EXTENDS Naturals

CONSTANTS
    Nonces, \* request identifiers; a random one is not in use anywhere
    MaxGen  \* bound: edits of the Pool

ASSUME MeasurementAssumption == MaxGen \in Nat /\ "none" \notin Nonces

NoNonce == "none"

VARIABLES
    pool,    \* the ShiftPVPool: [ready, gen]
    room,    \* has the filesystem room for a request ?
    request, \* capacity-probe-request annotation: [id, gen]
    answer,  \* status.capacityProbe: [id, gen, result]
    node,    \* the Node's worker: [step, id, gen, result]
    probe,   \* the measurement: [step, gen, id, result]
    seen     \* history: what was observable during the measurement

measurementVars == <<pool, room, request, answer, node, probe, seen>>

IdleNode == [step |-> "idle", id |-> NoNonce, gen |-> 0, result |-> "error"]
IdleProbe == [step |-> "idle", gen |-> 0, id |-> NoNonce, result |-> "error"]

Measuring == probe.step \notin {"idle", "done"}

(* The promise of module LiveProbe, for this measurement.                   *)
Promise == INSTANCE LiveProbe WITH
    ready <- pool.ready,
    probe <- [step |-> IF Measuring THEN "busy" ELSE probe.step, seen |-> seen,
              result |-> IF probe.step = "done" THEN probe.result ELSE "error"]

(* What statfs says.                                                        *)
Stat == IF room THEN "room" ELSE "full"

MeasurementInit ==
    /\ pool = [ready |-> TRUE, gen |-> 0] /\ room \in BOOLEAN
    /\ request = [id |-> NoNonce, gen |-> 0]
    /\ answer = [id |-> NoNonce, gen |-> 0, result |-> "error"]
    /\ node = IdleNode /\ probe = IdleProbe /\ seen = {}

-----------------------------------------------------------------------------
(* The controller.                                                          *)

(* A call for the Pool as it was listed, perhaps a while ago.               *)
StatFSForPool(gen) ==
    /\ probe.step = "idle"
    /\ probe' = [step |-> "rpc", gen |-> gen, id |-> NoNonce, result |-> "error"]
    /\ seen' = Promise!Observable(pool.ready, room)
    /\ UNCHANGED <<pool, room, request, answer, node>>

ProbeTo(step) == probe' = [probe EXCEPT !.step = step]
Finish(result) == probe' = [probe EXCEPT !.step = "done", !.result = result, !.id = NoNonce]

(* ReadyPoolForIdentity and matchingEvidence: a ready Pool, the one listed. *)
Verified == pool.ready /\ pool.gen = probe.gen
Unverified == IF pool.ready THEN "error" ELSE "not ready"

(* The remote client verifies, calls the Node if it has an endpoint, ...    *)
CallNode ==
    /\ probe.step = "rpc"
    /\ IF Verified THEN ProbeTo("call") \/ ProbeTo("request") ELSE Finish(Unverified)
    /\ UNCHANGED <<pool, room, request, answer, node, seen>>

(* ... which measures, fails, or does not answer in time ...                *)
GetCapacity ==
    /\ probe.step = "call"
    /\ \/ Verified /\ probe' = [probe EXCEPT !.step = "reply", !.result = Stat]
       \/ Finish("error") \/ ProbeTo("request")
    /\ UNCHANGED <<pool, room, request, answer, node, seen>>

(* ... and verifies again.                                                  *)
AcceptReply ==
    /\ probe.step = "reply" /\ Finish(IF Verified THEN probe.result ELSE Unverified)
    /\ UNCHANGED <<pool, room, request, answer, node, seen>>

(* The annotation client publishes a request of its own; an older Node does *)
(* not read it.                                                             *)
RequestPoolCapacityProbe ==
    /\ probe.step = "request"
    /\ \/ /\ ~Verified /\ Finish(Unverified) /\ UNCHANGED request
       \/ /\ Verified /\ ProbeTo("helper") /\ UNCHANGED request
       \/ /\ Verified
          /\ \E id \in Nonces \ {request.id, answer.id, node.id} :
                /\ request' = [id |-> id, gen |-> probe.gen]
                /\ probe' = [probe EXCEPT !.step = "await", !.id = id]
    /\ UNCHANGED <<pool, room, answer, node, seen>>

(* A poll looks for the answer to this request.                             *)
Answers == answer.id = probe.id

Await ==
    /\ probe.step = "await"
    /\ \/ ~Verified /\ Finish(Unverified)
       \/ /\ Verified /\ Answers
          /\ Finish(IF answer.gen = probe.gen /\ request = [id |-> probe.id, gen |-> probe.gen]
                    THEN answer.result ELSE "error")
    /\ UNCHANGED <<pool, room, request, answer, node, seen>>

(* After two seconds a helper Pod measures instead.  A late answer to the   *)
(* request may still be written.                                            *)
AwaitTimeout ==
    /\ probe.step = "await" /\ probe' = [probe EXCEPT !.step = "helper", !.id = NoNonce]
    /\ UNCHANGED <<pool, room, request, answer, node, seen>>

(* The helper Pod verifies as the Node does, or fails.                      *)
MeasureByHelper ==
    /\ probe.step = "helper"
    /\ \/ Verified /\ Finish(Stat)
       \/ Finish("error")
    /\ UNCHANGED <<pool, room, request, answer, node, seen>>

-----------------------------------------------------------------------------
(* The Node's worker.                                                       *)

(* answer reads the Pool: a request that has been answered is left alone,   *)
(* and one for other evidence is answered with an error.                    *)
ReadRequest ==
    /\ node.step = "idle" /\ pool.ready
    /\ request.id \notin {NoNonce, answer.id}
    /\ node' = [step |-> IF request.gen = pool.gen THEN "stat" ELSE "record",
                id |-> request.id, gen |-> pool.gen, result |-> "error"]
    /\ UNCHANGED <<pool, room, request, answer, probe, seen>>

NodeVerifies == pool.ready /\ pool.gen = node.gen

ReadFilesystem ==
    /\ node.step = "stat"
    /\ node' = [node EXCEPT !.step = "verify", !.result = IF NodeVerifies THEN Stat ELSE "error"]
    /\ UNCHANGED <<pool, room, request, answer, probe, seen>>

VerifyAgain ==
    /\ node.step = "verify"
    /\ node' = [node EXCEPT !.step = "record", !.result = IF NodeVerifies THEN @ ELSE "error"]
    /\ UNCHANGED <<pool, room, request, answer, probe, seen>>

(* Mutant: the answer goes to the request that is there by now.             *)
RecordForCurrentRequest ==
    /\ node.step = "record" /\ node' = IdleNode
    /\ answer' = [id |-> request.id, gen |-> request.gen, result |-> node.result]
    /\ UNCHANGED <<pool, room, request, probe, seen>>

(* RecordPoolCapacityProbe: dropped if the Pool or its request has changed. *)
RecordPoolCapacityProbe ==
    /\ node.step = "record" /\ node' = IdleNode
    /\ answer' = IF request.id = node.id /\ pool.gen = node.gen
                 THEN [id |-> node.id, gen |-> request.gen, result |-> node.result]
                 ELSE answer
    /\ UNCHANGED <<pool, room, request, probe, seen>>

(* The Node's process is replaced; its informer lists the request again.    *)
NodeRestarts ==
    /\ node.step # "idle" /\ node' = IdleNode
    /\ UNCHANGED <<pool, room, request, answer, probe, seen>>

-----------------------------------------------------------------------------
(* The caller goes on with the result, or the controller is replaced.       *)
Collect ==
    /\ probe.step # "idle" /\ probe' = IdleProbe /\ seen' = {}
    /\ UNCHANGED <<pool, room, request, answer, node>>

(* Volumes are written to and removed, probes and operators change the      *)
(* Pool; a new generation is not ready until it has been probed.            *)
Changed == seen' = IF Measuring THEN seen \cup Promise!Observable(pool'.ready, room') ELSE seen

RoomChanges ==
    /\ room' = ~room
    /\ UNCHANGED <<pool, request, answer, node, probe>>
    /\ Changed

PoolChanges ==
    /\ \/ pool' = [pool EXCEPT !.ready = ~@]
       \/ pool.gen < MaxGen /\ pool' = [ready |-> FALSE, gen |-> pool.gen + 1]
    /\ UNCHANGED <<room, request, answer, node, probe>>
    /\ Changed

-----------------------------------------------------------------------------

MeasurementNext ==
    \/ \E gen \in 0..pool.gen : StatFSForPool(gen)
    \/ CallNode \/ GetCapacity \/ AcceptReply \/ RequestPoolCapacityProbe
    \/ Await \/ AwaitTimeout \/ MeasureByHelper \/ Collect
    \/ ReadRequest \/ ReadFilesystem \/ VerifyAgain \/ RecordPoolCapacityProbe \/ NodeRestarts
    \/ RoomChanges \/ PoolChanges

MeasurementSpec == MeasurementInit /\ [][MeasurementNext]_measurementVars

-----------------------------------------------------------------------------

Results == {"room", "full", "not ready", "error"}
Measurements ==
    [step : {"idle", "rpc", "call", "reply", "request", "await", "helper", "done"},
     gen : 0..MaxGen, id : Nonces \cup {NoNonce}, result : Results]
Workers ==
    [step : {"idle", "stat", "verify", "record"}, id : Nonces \cup {NoNonce},
     gen : 0..MaxGen, result : Results]
Responses == [id : Nonces \cup {NoNonce}, gen : 0..MaxGen, result : Results]

(* Every variable holds what its declaration says.                          *)
MeasurementTypeOK ==
    /\ pool \in [ready : BOOLEAN, gen : 0..MaxGen] /\ room \in BOOLEAN
    /\ request \in [id : Nonces \cup {NoNonce}, gen : 0..MaxGen]
    /\ answer \in Responses
    /\ node \in Workers
    /\ probe \in Measurements
    /\ seen \subseteq {"room", "full", "not ready"}

(* What admission decides by was so at some moment since the measurement    *)
(* began: no answer to an earlier request, however late the Node writes it  *)
(* and however the transports are combined, is taken for it.                *)
MeasuredIsLive == probe.step = "done" => probe.result \in seen \cup {"error"}

(* The transports implement the promise of module LiveProbe.                *)
ImplementsProbe == Promise!ProbeSpec

=============================================================================
