SPECIFICATION FairSpec
CONSTANTS
    Thread = {t1}
    NoThread = NoThread
    Reader = {r1}
    Lazy = {r1}
    PageSize = 6
    PageHeader = 1
    DataLen = {1}
    FromTime = {0, 2}
    Tick = {0, 1}
    StepBack = 0
    CrashAt <- SafePoints
    SeekRace = FALSE
    MaxFrame = 5
    MaxPage = 4
    MaxCrash = 1
PROPERTIES ImplementsEventLog CatchesUp
CHECK_DEADLOCK FALSE
