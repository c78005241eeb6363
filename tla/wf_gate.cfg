SPECIFICATION Spec
CONSTANTS
    MaxNodes = 4
    Sent <- MCSent
    Reqs = {q1}
    MaxRuns = 2
    DebugLimit = 1
INVARIANT GateMeansTested
CHECK_DEADLOCK FALSE
