SPECIFICATION FairSpec
CONSTANTS
    Order = {o1}
    None = None
    Other = Other
    NaN = NaN
    Kinds = {"Spot", "FFuture"}
    Volume <- Volumes
    Price = 3
    Limit <- Limits
    Lossy = FALSE
    MaxStream = 2
    MaxAction = 1
    MaxStart = 2
    MaxActive = 1
INVARIANTS Tracked ValueConserved Consistent BookExact NoZombie
PROPERTY Resolved
CHECK_DEADLOCK FALSE
