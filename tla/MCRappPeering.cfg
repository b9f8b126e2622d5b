SPECIFICATION PeeringSpec
CONSTANTS
    Endpoints <- ThreeEndpoints
    Offers <- TwoOffers
    OfferOf <- Reaches
    CandidatesMax = 4
    RetryAfter = {0, 1, 2}
    MaxSearchTime = 3
    PlatformReasons <- AllReasons
    MaxFrames = 2
    Absent = Absent
    Tombstone = Tombstone
    Created = 2
    IdleLimit = 3
    NoticeLimit = 2
    AttemptBound = 1
    MaxTime = 8
    MaxSets = 2
INVARIANTS OneGuessPerCustodian ForgottenIsFinal EchoIsEvidence
PROPERTIES SearchEnds ForgottenIsDestroyed ForgottenServesNothing ForgetEndsSession
CHECK_DEADLOCK FALSE
