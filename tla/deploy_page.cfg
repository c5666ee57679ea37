SPECIFICATION FairSpec
CONSTANTS
  Runs = {r1, r2}
  Hosts = {h1}
  Polls = {p1}
INVARIANTS ShownVerdictIsFinal
PROPERTIES VerdictIsShown
CHECK_DEADLOCK FALSE
