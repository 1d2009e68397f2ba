SPECIFICATION Spec
CONSTANTS
    Thread = {t1, t2}
    NoThread = NoThread
    Reader = {r1}
    Lazy = {r1}
    PageSize = 6
    PageHeader = 1
    DataLen = {0, 1}
    FromTime = {0}
    Tick = {1}
    StepBack = 0
    CrashAt <- SafePoints
    SeekRace = TRUE
    MaxFrame = 6
    MaxPage = 4
    MaxCrash = 2
INVARIANTS FramesIntact ChainUnbroken NoReaderFault WriterRestarts InOrder
CHECK_DEADLOCK FALSE
