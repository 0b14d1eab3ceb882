SPECIFICATION OperatorSpec
CONSTANTS
    Redrives = {r1}
    Others = {o1}
    Incidents = {f1}
    Eligible = {f1}
    MaxConcurrent = 1
    MaxPlans = 1
    MaxOperations = 2
    MaxEvaluations = 1
    MaxErrors = 0
INVARIANTS
    RefusedChangesNothing
CHECK_DEADLOCK FALSE
