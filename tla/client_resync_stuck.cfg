SPECIFICATION StuckResyncSpec
CONSTANTS
    LocalSyncAttempts = 3
    MaxSyncAttempts = 3
    MaxRevision = 2
    MaxFaults = 10
PROPERTIES
    Settles
CHECK_DEADLOCK FALSE
