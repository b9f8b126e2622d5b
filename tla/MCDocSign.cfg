SPECIFICATION Spec
CONSTANTS
    c1 = c1
    c2 = c2
    c3 = c3
    c4 = c4
    t1 = t1
    t2 = t2
    None = None
    Authorities <- MCAuthorities
    Cards <- MCCards
    Serial <- MCSerial
    Runs <- MCRuns
    MaxAttempts = 3
    InitialDelay = 1
    MaxDelay = 2
    Budget = 5
    MaxRotations = 1
    MaxTries = 3
    Floor = 2
    MaxEvents = 2
INVARIANTS
    LtIsComplete
    PinUsedAsAgreed
    WrittenIsVerified
CHECK_DEADLOCK FALSE
