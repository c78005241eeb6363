SPECIFICATION FairSpec
CONSTANTS
    u1 = u1
    u2 = u2
    r1 = r1
    r2 = r2
    Rounds = {r1,r2}
    Users = {u1,u2}
    Owner <- OneOwner
    Kinds <- Mixed
    MaxSaid = 2
    Cap = 1
    MayDelete = {r1}
    Faults = {"model","redis","db","broker","setup","crash","ttl"}
INVARIANT ShownIsStored
INVARIANT RowIsHonest
INVARIANT HistoryIsSettled
PROPERTY RoundsClose
PROPERTY Promise
CHECK_DEADLOCK FALSE
