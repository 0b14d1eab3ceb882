SPECIFICATION FairSpec
CONSTANTS
    MaxFrames = 2
    MaxSyncAttempts = 2
    MaxSequence = 4
    MaxRevision = 3
    MaxBoundary = 1
    MaxFlaps = 1
    MaxResyncs = 1
    LaggingSnapshot = FALSE
    Stalls = TRUE
    GapEvents = {}
INVARIANTS
    LiveIsNewest
    LiveCoversBoundary
PROPERTIES
    ImplementsPromise
    Settles
CHECK_DEADLOCK FALSE
