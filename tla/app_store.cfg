SPECIFICATION Spec
CONSTANTS
    Users = {u1, u2}
    Reqs = {q1}
    Edited = {1}
    MaxApps = 2
    MaxSaves = 2
    MaxVersions = 2
    MaxEntries = 1
    MaxTools = 1
    MaxRefs = 1
SYMMETRY Symmetry
INVARIANT StoreIsCurrent
INVARIANT OwnToolsOnly
INVARIANT HistoryTells
CHECK_DEADLOCK FALSE
