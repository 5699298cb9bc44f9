SPECIFICATION FairSpec
CONSTANTS
    MaxCA = 3
    MaxFaults = 1
    Calls = {c1}
    Guards = {g1}
    MaxAttempts = 2
INVARIANTS
    AcknowledgedIsQuiet
    GrantedLeavesNothing
    ServedCertificateIsTrusted
PROPERTIES
    AbandonedUninstallIsUndone
