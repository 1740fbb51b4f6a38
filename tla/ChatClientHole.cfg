SPECIFICATION Spec
CONSTANTS
  Slots = {1, 2}
  PageSize = 2
  MaxLen = 4
  Failures = FALSE
  NullPages = FALSE
  None = None
INVARIANTS
  NoHole
CHECK_DEADLOCK FALSE
