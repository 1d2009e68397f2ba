SPECIFICATION FairSpec
CONSTANTS
    r1 = r1  r2 = r2  r3 = r3
    Request = {r1, r2, r3}
    CallOf <- Calls
    MaxFlight = 4
INVARIANTS InStep AtMostOnce
PROPERTY Answered
CHECK_DEADLOCK FALSE
