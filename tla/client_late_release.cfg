SPECIFICATION LateReleaseSpec
CONSTANTS
    LocalSyncAttempts = 3
    MaxSyncAttempts = 3
    MaxRevision = 2
    MaxFaults = 10
INVARIANTS
    LiveIsHonest
CHECK_DEADLOCK FALSE
