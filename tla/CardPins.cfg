SPECIFICATION Spec
CONSTANTS
  Limit = 5
  Floor = 3
  Families = {"Citizen", "Organizational"}
  FirstTries = {0, 2, 3}
  MaxCalls = 3
INVARIANTS OnePin2PerSignature
PROPERTY LastTriesNotSpent
CHECK_DEADLOCK FALSE
