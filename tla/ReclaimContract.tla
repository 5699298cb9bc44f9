--------------------------- MODULE ReclaimContract ---------------------------
(***************************************************************************)
(* What the cleanup of a copy promises to its parent, whoever executes it. *)
(* The copy may be destroyed only while the cleanup is open; a result is   *)
(* reported only for a copy that is gone; nothing happens to the copy      *)
(* afterwards, whether the cleanup settled or was handed to an operator.   *)
(***************************************************************************)
VARIABLES outcome, copy

Init == outcome = "open" /\ copy = "intact"

Destroy ==
    /\ outcome = "open" /\ copy = "intact"
    /\ copy' = "gone" /\ UNCHANGED outcome

Report ==
    /\ outcome = "open" /\ copy = "gone"
    /\ outcome' = "reclaimed" /\ UNCHANGED copy

Settle == outcome = "reclaimed" /\ outcome' = "settled" /\ UNCHANGED copy
HandOver == outcome = "open" /\ outcome' = "review" /\ UNCHANGED copy

Next == Destroy \/ Report \/ Settle \/ HandOver

Spec == Init /\ [][Next]_<<outcome, copy>>
=============================================================================
