SPECIFICATION SessionSpec
CONSTANTS
    Subscriptions = {s1, s2}
    Identities = {"ann", "ben"}
    MaxOpens = 4
    MaxFaults = 3
    MaxFrames = 2
    MaxSyncAttempts = 2
    MaxSequence = 3
    MaxRevision = 2
    MaxBoundary = 1
    MaxFlaps = 1
    MaxResyncs = 1
    LaggingSnapshot = TRUE
    Stalls = TRUE
    GapEvents = {"record", "status", "revoke", "close", "stall"}
INVARIANTS
    OneConnection
    NoCrossIdentity
    BudgetExact
PROPERTIES
    Reconnects
    NeverRegresses
CHECK_DEADLOCK FALSE
