SPECIFICATION DirectorySpec
CONSTANTS
    Process = {"a", "b"}
    Contained = {"b"}
    Source = {"s1", "s2"}
    Generation = {1, 2}
    NoGeneration = 0
    Configs <- StartConfigs
    MaxFaults = 2
    Callers = {c1, c2}
    MaxConnections = 1
    MaxGateways = 3
    LogSize = 2
    MaxFailures = 2
    MaxDisruptions = 1
    AdvanceLimit = 1
    MaxJobs = 2
    Redrives = {r1, r2}
    Others = {o1}
    Incidents = {f1}
    Eligible = {f1}
    MaxConcurrent = 1
    MaxPlans = 1
    MaxOperations = 2
    MaxEvaluations = 2
    MaxErrors = 1
INVARIANTS
    OneOwner
    OpenIsCurrent
    RefusedNeverRan
    ListenerIsReachable
    NoSilentSkip
    SkippedIsCovered
    AnswersAgree
    PlanUsedOnce
    NeverRetriesUnderAdvance
PROPERTIES
    RebaselineIsWhole
    ResolvedIsTrue
SYMMETRY RedriveSymmetry
CHECK_DEADLOCK FALSE
