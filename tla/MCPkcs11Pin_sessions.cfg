SPECIFICATION FirstCard
CONSTANTS
    t1 = t1
    t2 = t2
    c1 = c1
    c2 = c2
    p1 = p1
    p2 = p2
    None = None
    Threads <- MCThreads
    Cards <- MCCards
    Pins <- MCPins
    MaxHandle = 1
    MaxEpoch = 1
    Instances <- MCInstances
INVARIANT LoginEndsWithSessions
CHECK_DEADLOCK FALSE
