SPECIFICATION FairSpec
CONSTANTS
    Docs = {d1}
    Segs = {s1,s2,s3,s4}
    Tasks = {t1,t2}
    Workers = {w1}
    Reqs = {r1}
    Batches <- Singles
    MaxSplit = 1
    MaxAttempts = 2
    Faults = {"kill","reject","mark"}
    None = None
INVARIANT DeletedIsClean
PROPERTY BuildsSettle
CHECK_DEADLOCK FALSE
