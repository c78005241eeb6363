SPECIFICATION FairSpec
CONSTANTS
    Segs = {s1}
    Texts = {t1,t2}
    Reqs = {r1}
    Workers = {w1}
    MaxQueue = 2
    None = None
INVARIANT EditsShowAtOnce
INVARIANT FullTextMatches
INVARIANT CountsAreCurrent
PROPERTY SwitchTakesEffect
CHECK_DEADLOCK FALSE
