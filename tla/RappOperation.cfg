SPECIFICATION FairSpec
CONSTANTS
    None = None
    Ids = {o1, o2}
    Lifetimes = {1}
    MaxLifetime = 1
    MaxSeen = 2
    BatchTotal = 2
    Granted = {"read", "batch"}
    MaxQueue = 2
INVARIANTS
    CommandAtMostOnce
    ReportIsTrue
PROPERTIES
    LiveNotDisplaced
    EveryOperationEnds
CHECK_DEADLOCK FALSE
