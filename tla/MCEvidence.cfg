CONSTANTS
    MAX_CLOCK_SKEW = 1
    MAX_OCSP_AGE_WITHOUT_NEXT_UPDATE = 1
    MAX_CERTIFICATE_ADDRESSES = 3
    MAX_HASH_INDEX_ENTRIES = 4
    MaxTime = 3
    Worlds <- MCWorlds
SPECIFICATION Spec
INVARIANT StatusIsTrue
INVARIANT ReadersAgree
INVARIANT SignedAsRead
INVARIANT ArchiveCovers
PROPERTY TimelyAnswerSuffices
CHECK_DEADLOCK FALSE
