\* Data, mounts and copies through two faults, while finished Jobs stay and the
\* namespace remains enrolled.
CONSTANTS
    Inputs = {"uncordon", "recover", "retire", "sick", "fail", "space", "preempt", "rollout"}
    MaxFaults = 2
    MaxWrites = 2
SPECIFICATION Spec
INVARIANTS MountsAreFenced CleanupSparesOwner EveryCopyIsAccounted
PROPERTIES OwnerMovesForward ImplementsSingleCopy HeldUntilPlacementGone
\* The Move ends, and the workload writes no more: the system may rest.
CHECK_DEADLOCK FALSE
