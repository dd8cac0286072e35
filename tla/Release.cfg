\* HEAD moves at any moment, other clones push; what was pushed is deployed.
CONSTANTS
    MaxCommits = 3
    OthersUntil = 2
    NoCommit = NoCommit
    MaxFaults = 1
    MaxAttempts = 2
SPECIFICATION ReleaseSpec
INVARIANTS
    GateTypeOK
    ConfirmedIsPublished
    JournalTellsOfPushes
    ReceiptsAreEarned
CHECK_DEADLOCK FALSE
