\* Progress of a recovery the operator asks for.
CONSTANTS
    Inputs = {"sick", "recover", "uncordon"}
    MaxFaults = 2
    MaxWrites = 1
SPECIFICATION LiveSpec
PROPERTIES RecoveryCompletes
\* The Move ends, and the workload writes no more: the system may rest.
CHECK_DEADLOCK FALSE
