SPECIFICATION FairSpec
CONSTANTS
  Crates = FALSE
  Runs = {"r1", "r2"}
  Hosts = {"h1", "h2"}
  Copies = {1}
  Agents = {"h1", "h2"}
  Requests <- MCTargets
  AgentOf <- MCTargetAgents
  LongLogs = FALSE
  MaxRestarts = 0
  MaxDeaths = 1
CHECK_DEADLOCK FALSE
INVARIANTS
  VerdictAccounts
  BusyMeansRunning
PROPERTIES
  OfflineNeverPushed
  RunLifecycle
  RunsEnd
