SPECIFICATION Spec
CONSTANTS
    Docs = {d1}
    Segs = {s1,s2}
    Tasks = {t1,t2}
    Workers = {w1,w2}
    Reqs = {r1}
    Batches <- Singles
    MaxSplit = 1
    MaxAttempts = 1
    Faults = {"reject","qdrant","mark","kill","lose","restart","visibility","race"}
    None = None
SYMMETRY Symmetry
INVARIANT ProcessingIsCarried
INVARIANT WaitingIsCarried
CHECK_DEADLOCK FALSE
