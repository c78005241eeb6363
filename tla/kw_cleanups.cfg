SPECIFICATION FairSpec
CONSTANTS
    Procs = {p1,p2,p3}
    Segs = {s1,s2}
    Ops = {"cleanup"}
    Isolation = "repeatable read"
    Faults = {"kill","dataset"}
    None = None
PROPERTY Atomic
PROPERTY CallersAreServed
CHECK_DEADLOCK FALSE
