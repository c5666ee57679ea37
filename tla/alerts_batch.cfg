SPECIFICATION FairSpec
CONSTANTS
  Crates = FALSE
  Hosts = {h1}
  Workers = {w1}
  Loop = loop
  NoErrors = none
  e1 = e1
  wide = wide
  Never = Never
  WideDetails = {}
  WideReplies = FALSE
  Readings <- SteadyReadings
  Offsets <- LateOrAhead
  Threshold = 2
  StuckPeriod = 0
  Webhook = "batch"
  BatchLimit = 1
  MaxTime = 4
  MaxIngests = 2
  MaxCrashes = 0
  MinSnapshots = 2
  SpanPercent = 50
  MinProgress = 1
  Epsilon = 0
PROPERTIES
  NoFalseOffline
  FailureRecorded
  SilentHostReported
  ReturnNoticed
