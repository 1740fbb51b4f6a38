SPECIFICATION Spec
CONSTANTS
  Keys = {"k1", "k2"}
  Cost = 2
  Burst = 2
  Idle = 3
  MaxTime = 6
  None = None
INVARIANTS
  RateHonoured
  RefusedWhenSpent
CHECK_DEADLOCK FALSE
