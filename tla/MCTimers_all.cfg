SPECIFICATION FairSpec
CONSTANTS
    App = {a}
    MaxTimer = 2
    Delay <- Delays
    Duration = {1, 2}
    MaxLag = 2
    MaxRequest = 3
INVARIANTS TimersServed
PROPERTY Fires
