SPECIFICATION RuntimeSpec
CONSTANTS
    Connections = {c1, c2}
    MaxConnections = 1
    MaxStarts = 2
    MaxRevocations = 1
    MaxFlaps = 1
    Records = 2
    ChannelCount = 2
    MaxRevision = 1
    Data = {"a", "b"}
    MaxOutputs = 2
    TransientRetries = 1
    ClassifyAll = TRUE
    AdvanceCount = 2
    MaxRequests = 2
    MaxRedrives = 1
    MaxChanges = 1
    LogSize = 3
    MaxFailures = 2
    MaxDisruptions = 2
INVARIANTS
    RevokedIsClosed
    JournalOutlivesItsUsers
    AdmitsWholeRecords
    IntegrityOutranks
    CommittedIsAccounted
    HeldIsRetried
PROPERTIES
    StopResolves
    ChainSettles
    RetryNeverUndoes
    CommitsCatchUp
CHECK_DEADLOCK FALSE
