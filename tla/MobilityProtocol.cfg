\* Every input of operator and environment, one piece of bad luck.
CONSTANTS
    Inputs = {"uncordon", "recover", "delete", "retire", "sick", "down", "optout", "ambiguous", "deferred", "space", "preempt", "expire", "fail", "rollout"}
    MaxFaults = 1
    MaxWrites = 2
SPECIFICATION Spec
INVARIANTS OwnerHasEveryWrite LockHasRecord ReservationSpansDisruption RecoveryIsQuiet
PROPERTIES DecisionsAreDurable
\* The Move ends, and the workload writes no more: the system may rest.
CHECK_DEADLOCK FALSE
