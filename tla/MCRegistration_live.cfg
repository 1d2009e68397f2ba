SPECIFICATION FairSpec
CONSTANTS
    trader = trader  strategy = strategy
    App = {trader, strategy}
    NoApp = NoApp
    Old = {trader, strategy}
    Request = {"write_to", "read_from", "read_public"}
    FastRestart = FALSE
    EarlyDeath = FALSE
    MaxPid = 3
    MaxRequest = 0
PROPERTIES Settles Freed
CHECK_DEADLOCK FALSE
