SPECIFICATION FairSpec
CONSTANTS
    p1 = p1
    p2 = p2
    u1 = u1
    u2 = u2
    u3 = u3
    home = home
    other = other
    m1 = m1
    m2 = m2
    c1 = c1
    None = None
    Procs = {p1}
    Users = {u1,u2}
    Proc <- OneProc
    Admins = {a1,a2}
    MaxWrites = 2
    Catalogue <- Edits
    Providers = {home,other}
    Models = {m1,m2}
    Channels = {c1}
    Serves <- OneModel
    Requests <- Wants
    DefProvider = home
    DefModel = m1
    Faults = {"read","bump","reload","restart","die"}
INVARIANT CopyHasItsVersion
INVARIANT DefaultServes
PROPERTY NeverGoesBack
PROPERTY EditsArrive
