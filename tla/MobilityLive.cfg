\* Progress of a Move through one trouble and the removal of its workload.
CONSTANTS
    Inputs = {"preempt", "space", "deferred", "down", "optout", "ambiguous", "retire"}
    MaxFaults = 1
    MaxWrites = 1
SPECIFICATION LiveSpec
PROPERTIES MoveConcludes WorkloadReturns RetiredVolumeIsReleased ReleasedMoveSettles
\* The Move ends, and the workload writes no more: the system may rest.
CHECK_DEADLOCK FALSE
