SPECIFICATION VerificationSpec
CONSTANTS
  Documents <- MCDocuments
  MAX_XREF_SECTIONS = 5
  ObjectLists <- MCObjectLists
  Names <- MCNames
  MAX_ENTRIES = 8
  MAX_TOTAL_BYTES = 12
  MaxEdits <- MCMaxEdits
  DIRECTIVE_REGIME_END = 2
  MAX_POINTERS = 2
  MAX_SERVICES = 2
  MAX_HISTORY = 4
  MAX_PATH_DEPTH = 5
  MAX_ANCHORED_PATHS = 4
  MAX_PATH_SEARCH_VERIFICATIONS = 8
  MAX_CLOCK_SKEW = 1
  MAX_DEPTH = 4
  MAX_OCSP_AGE_WITHOUT_NEXT_UPDATE = 0
  Worlds <- MCWorlds
  MaxTime = 3
INVARIANTS
  IntactIsAsSigned OwnOutputVerifies OneReading CoveredWasStamped
  ValidIsJustified CollectedSuffices  GrantedAsListed ProvenStaysValid
CHECK_DEADLOCK FALSE
