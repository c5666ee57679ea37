SPECIFICATION ReportingSpec
CONSTANTS
  Crates = FALSE
  Hosts = {h1}
  Node = h1
  Workers = {w1}
  Loop = loop
  NoErrors = none
  Never = Never
  WideDetails = {}
  WideReplies = FALSE
  Readings <- MCReadings
  Offsets <- MCOffsets
  Threshold = 4
  StuckPeriod = 0
  Webhook = "batch"
  BatchLimit = 1
  MaxTime = 6
  MaxIngests = 5
  MaxCrashes = 1
  MinSnapshots = 2
  SpanPercent = 50
  MinProgress = 1
  Epsilon = 0
  Interval = 1
  Collect = 0
  Delay = 1
  MaxFaults = 1
INVARIANTS
  WorkingNeverOffline
PROPERTIES
  AgentKept
CHECK_DEADLOCK FALSE
