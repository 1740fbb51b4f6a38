SPECIFICATION Spec
CONSTANTS
  Slots = {1, 2, 3}
  PageSize = 2
  MaxLen = 3
  Failures = TRUE
  NullPages = TRUE
  None = None
INVARIANTS
  NoDuplicates
  CursorAtNewest
  ShownIsPrefix
PROPERTIES
  ToldAdvances
CHECK_DEADLOCK FALSE
