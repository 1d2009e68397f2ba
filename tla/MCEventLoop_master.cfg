SPECIFICATION FairSpec
CONSTANTS
    jm = jm  ja = ja  jb = jb  lm = lm  la = la  lb = lb
    Journal = {jm, ja}
    Home = jm
    Location = {lm, la}
    LocationOf <- Owner
    None = None
    Master = TRUE
    Command = {"read_from"}
    Tick = {1}
    MaxFrame = 2
    MaxClock = 4
INVARIANTS NoDangling EachOnce
PROPERTY EveryFrame
CHECK_DEADLOCK FALSE
