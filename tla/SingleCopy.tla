----------------------------- MODULE SingleCopy -----------------------------
(***************************************************************************)
(* What a ShiftPV Volume promises its workload: it behaves as one          *)
(* directory that lives on one node at a time.  A consumer mounts it only  *)
(* on the node that owns it, reads what was written last whichever node    *)
(* that is, and ownership passes to another node only between mounts.      *)
(***************************************************************************)
EXTENDS Integers

CONSTANTS Nodes, Consumers

VARIABLES
    owner,    \* the node that owns the Volume
    content,  \* the last write a reader of the Volume finds
    mounted   \* the consumers that hold a mount of it, with their node

vars == <<owner, content, mounted>>

Unmounted == "none"

Init ==
    /\ owner \in Nodes
    /\ content \in Nat
    /\ mounted \in [Consumers -> {Unmounted, owner}]

Mount(c) ==
    /\ mounted[c] = Unmounted
    /\ mounted' = [mounted EXCEPT ![c] = owner]
    /\ UNCHANGED <<owner, content>>

Unmount(c) ==
    /\ mounted[c] # Unmounted
    /\ mounted' = [mounted EXCEPT ![c] = Unmounted]
    /\ UNCHANGED <<owner, content>>

Write(c) ==
    /\ mounted[c] # Unmounted
    /\ content' = content + 1
    /\ UNCHANGED <<owner, mounted>>

(* The owner changes while nobody holds a mount, and nothing is lost.       *)
Handoff ==
    /\ \A c \in Consumers : mounted[c] = Unmounted
    /\ owner' \in Nodes \ {owner}
    /\ UNCHANGED <<content, mounted>>

Next ==
    \/ \E c \in Consumers : Mount(c) \/ Unmount(c) \/ Write(c)
    \/ Handoff

Spec == Init /\ [][Next]_vars
=============================================================================
