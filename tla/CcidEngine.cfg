SPECIFICATION Spec
CONSTANTS
    None = None
    SeqModulus = 4
    DefaultTimeout = 1
    MaxTimeExtensions = 1
    WallLimit = 2
    Multipliers = {2}
    MaxDrain = 1
    MaxResponse = 2
    ExtendedApdu = TRUE
    MaxBlocks = 2
    Kinds = {"PowerOn", "PowerOff", "TransferBlock", "Abort"}
    MaxParts = 3
    MaxOps = 3
    MaxEvents = 1
    MaxFifo = 1
INVARIANTS AnswerIsItsOwn WaitIsBounded
PROPERTY OneCardPerAnswer
CHECK_DEADLOCK FALSE
