SPECIFICATION LifeSpec
CONSTANTS
    Connections = {c1}
    MaxConnections = 1
    MaxStarts = 1
    MaxRevocations = 0
    MaxFlaps = 0
INVARIANTS
    StoppedIsNotRunning
CHECK_DEADLOCK FALSE
