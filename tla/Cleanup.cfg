\* Two incarnations of the Node Pod, one controller thread that works from a
\* snapshot of the journal while it is written by the Node, and two faults.
CONSTANTS
    Pods = {p1, p2}
    Controllers = {c1}
    NoPod = NoPod
    MaxFaults = 2
SPECIFICATION FairSpec
INVARIANTS ReceiptIsEvidence SettledIsQuiet FenceIsCausal
PROPERTIES RetireIsJournaled ImplementsContract CleanupSettles
