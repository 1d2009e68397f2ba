SPECIFICATION FairSpec
CONSTANTS
    Strategy = {s1}
    Channel <- Pair
    Addr = {a1, a2}
    None = None
    MaxRequest = 2
    MaxFault = 1
INVARIANTS FeedsFiled
PROPERTIES Fed
CHECK_DEADLOCK FALSE
