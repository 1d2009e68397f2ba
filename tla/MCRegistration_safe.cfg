SPECIFICATION Spec
CONSTANTS
    trader = trader  strategy = strategy
    App = {trader, strategy}
    NoApp = NoApp
    Old = {}
    Request = {"write_to", "read_from", "read_public"}
    FastRestart = TRUE
    EarlyDeath = FALSE
    MaxPid = 3
    MaxRequest = 1
INVARIANTS Sessions Agreement Follows NoCrash
SYMMETRY Symmetric
CHECK_DEADLOCK FALSE
