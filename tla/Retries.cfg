CONSTANTS
    Claims = {c1, c2}
    Limit = 1
    MaxWaiters = 2
    MaxFaults = 1
SPECIFICATION FairSpec
INVARIANTS NoWakeupIsLost
PROPERTIES NoWaiterStarves
