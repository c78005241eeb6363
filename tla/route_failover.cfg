SPECIFICATION FairSpec
CONSTANTS
    c1 = c1
    c2 = c2
    c3 = c3
    None = None
    Channels = {c1,c2}
    Threads = {t1,t2}
    Rank <- Rank2
    Threshold = 2
    Reliable = {c2}
    Rejects = {"first"}
    RedisFails = TRUE
INVARIANT SoundStaysOn
INVARIANT SoundChannelServes
INVARIANT OneChannelPerStream
PROPERTY RepairedIsUsedAgain
PROPERTY CallsEnd
