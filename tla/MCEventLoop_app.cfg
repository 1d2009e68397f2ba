SPECIFICATION Spec
CONSTANTS
    jm = jm  ja = ja  jb = jb  lm = lm  la = la  lb = lb
    Journal = {jm, ja, jb}
    Home = jm
    Location = {lm, la, lb}
    LocationOf <- Owner
    None = None
    Master = FALSE
    Command = {"read_from", "deregister"}
    Tick = {1}
    MaxFrame = 2
    MaxClock = 4
INVARIANT OldestFirst
CHECK_DEADLOCK FALSE
