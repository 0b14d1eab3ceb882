SPECIFICATION Spec
CONSTANTS
    MaxFrames = 2
    MaxSyncAttempts = 2
    MaxSequence = 4
    MaxRevision = 2
    MaxBoundary = 0
    MaxFlaps = 1
    MaxResyncs = 0
    LaggingSnapshot = FALSE
    Stalls = FALSE
    GapEvents = {"record", "status"}
INVARIANTS
    LiveIsNewest
CHECK_DEADLOCK FALSE
