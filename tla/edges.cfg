SPECIFICATION EdgeSpec
CONSTANTS
    Failure <- Failures
    Partition = {0, 1}
    Read = {r1, r2}
    MaxExpired = 1
    NoFailure = NoFailure
    Published <- Writes
    Client = {c1, c2, c3, c4}
    Supplied = {c1, c2}
    Key = {k1, k2}
    Origin = {o1, o2}
    NoClient = NoClient
    NoKey = NoKey
    MaxChanges = 3
    MaxBreaks = 1
    Tag = {"small", "large"}
    Size <- SizeOf
    All = "all"
    MaxEntries = 2
    MaxBytes = 3
    CompactAt = 1
    FirstLimit = 2
    NextLimit = 1
    MaxRows = 2
    MaxTraces = 3
    MaxRuns = 2
    MaxResets = 2
    MaxFailures = 1
    Call = {"a", "b"}
    Requests <- RequestsTried
    Granted = {"source-checks", "preview-sessions", "traces"}
    MaxBody = 2
    MaxOperatorBody = 1
    Principal = {"ann"}
    ValidUntil <- ValidTwo
    TokenTtl = 1
    Burst = 1
    MaxChecks = 1
    MaxClock = 2
    Topic = {"q", "t2"}
    NoValue = NoValue
    Candidates <- OptionsTried
    Command = {p1, p2}
    Invocations <- InvocationsTried
    Path = {"config", "handlers", "types", "bundle"}
    Scaffold <- ScaffoldFiles
    GeneratedFiles <- TypeFiles
    ExportFile = "bundle"
    User = user
    Nobody = nobody
INVARIANTS
    ReadLeavesNothing
    RowsAreTheLog
    AcceptedIsRunnable
    ExitIsTrue
PROPERTIES
    ScreenIsCurrent
    OnlyAdmittedActs
CHECK_DEADLOCK FALSE
