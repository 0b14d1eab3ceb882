SPECIFICATION FairSpec
CONSTANTS
    LocalSyncAttempts = 2
    MaxSyncAttempts = 2
    MaxRevision = 2
    MaxFaults = 4
INVARIANTS
    LiveIsHonest
    EndedIsReleased
PROPERTIES
    DeliveryNeverRegresses
    Settles
CHECK_DEADLOCK FALSE
