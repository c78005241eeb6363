SPECIFICATION Spec
CONSTANTS
    Docs = {d1}
    Segs = {s1,s2,s3,s4}
    Tasks = {t1,t2}
    Workers = {w1}
    Reqs = {r1,r2}
    Batches <- Singles
    MaxSplit = 2
    MaxAttempts = 2
    Faults = {"kill","restart","reject","redis","race","dispatch"}
    None = None
SYMMETRY Symmetry
INVARIANT SettledHasVectors
INVARIANT SettledHasKeywords
INVARIANT NoDuplicateSegments
PROPERTY PublishedWhole
CHECK_DEADLOCK FALSE
