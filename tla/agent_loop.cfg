SPECIFICATION Spec
CONSTANTS
  Crates = FALSE
  Interval = 3
  Collect = 1
  Delay = 4
  MaxTime = 18
  MaxFaults = 1
INVARIANTS AgeBounded
PROPERTIES LatestForward
CHECK_DEADLOCK FALSE
