CONSTANTS
    MaxUid = 1
    MaxPod = 2
    MaxDeletes = 1
    MaxFaults = 0
SPECIFICATION Spec
PROPERTIES
    RetiredCreationDisappears
    LiveClaimIsServed
    DeletionSucceeds
