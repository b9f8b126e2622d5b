SPECIFICATION Spec
CONSTANTS
    Requesters = {"r1", "r2"}
    RightCodes = {{"r1"}, {"r1", "r2"}}
    Grants = {"auth", "sign"}
    OfferTtl = 2
    AttemptWindow = 1
    Spacing = 1
    HandshakeWindow = 1
    ConfirmWindow = 1
    MaxConnections = 2
    MaxTime = 4
INVARIANTS GuessesSpaced ConfirmedTogether
CHECK_DEADLOCK FALSE
