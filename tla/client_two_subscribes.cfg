SPECIFICATION TwoSubscribesSpec
CONSTANTS
    LocalSyncAttempts = 3
    MaxSyncAttempts = 3
    MaxRevision = 2
    MaxFaults = 10
INVARIANTS
    EndedIsReleased
CHECK_DEADLOCK FALSE
