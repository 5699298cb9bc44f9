CONSTANTS
    MaxUid = 2
    MaxPod = 2
    MaxDeletes = 1
    MaxFaults = 1
SPECIFICATION Spec
INVARIANTS
    AcknowledgedVolumeStays
    ReadyVolumeIsPlaced
    DiskIsReserved
    
    NoReviewNeeded
