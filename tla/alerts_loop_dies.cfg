SPECIFICATION FairSpec
CONSTANTS
  Crates = TRUE
  Hosts = {h1}
  Workers = {w1}
  Loop = loop
  NoErrors = none
  e1 = e1
  wide = wide
  Never = Never
  WideDetails = {wide}
  WideReplies = FALSE
  Readings <- FaultyReadings
  Offsets = {0}
  Threshold = 1
  StuckPeriod = 1
  Webhook = "discord"
  BatchLimit = 9
  MaxTime = 2
  MaxIngests = 2
  MaxCrashes = 0
  MinSnapshots = 2
  SpanPercent = 50
  MinProgress = 1
  Epsilon = 0
PROPERTIES
  SilentHostReported
