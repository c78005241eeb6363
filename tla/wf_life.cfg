SPECIFICATION Spec
CONSTANTS
    MaxNodes = 4
    Sent <- MCSent
    Reqs = {q1}
    MaxRuns = 2
    DebugLimit = 1
INVARIANT TypeOK
INVARIANT StrictIsExact
INVARIANT RefsAreBound
INVARIANT RunsAreWhole
INVARIANT PublishedWasTested
PROPERTY RunsSettle
CHECK_DEADLOCK FALSE
